---- MODULE Spec2Model ----
(***************************************************************************)
(* Lead pipeline service: the record store (leads, activity log), the      *)
(* pipeline engine (progress_lead_stage, auto_progress_after_qualification)*)
(* and the request handlers of routers/leads.py that drive them.           *)
(*                                                                         *)
(* Each request runs in its own session; an action is one whole request.   *)
(* Strings are TLA+ strings, None is the sentinel below, scores are the    *)
(* integer-valued floats the handlers store.                               *)
(***************************************************************************)
EXTENDS Integers, Sequences, FiniteSets, TLC

VARIABLES
    leads,        \* table lead: id -> row
    activities,   \* table activitylog, in insertion order
    nextLeadId,   \* next primary key of lead
    nextActId,    \* next primary key of activitylog
    now,          \* datetime.utcnow() of the next request
    last,         \* the last request: operation, arguments, response
    prev,         \* the store as it was before the last request
    inflight      \* requests between two of their steps, by worker

vars == <<leads, activities, nextLeadId, nextActId, now, last, prev, inflight>>

\* ---------------------------------------------------------------- bounds

\* Requests served in one behaviour.
MaxRequests == 3

\* Requests the server works on at a time.
MaxWorkers == 2

\* Activities of one lead in a store that pruning starts from.
MaxSeed == 12

\* ------------------------------------------------------------- constants

None == "None"

\* The record of a request when no request has been served yet.
NoRequest ==
    [op |-> "none", status |-> 0, lead_id |-> 0, args |-> <<>>, ret |-> None]

STAGE_NEW == "New"
STAGE_QUALIFIED == "Qualified"
STAGE_CONTACTED == "Contacted"
STAGE_MEETING == "Meeting"
STAGE_WON == "Won"
STAGE_LOST == "Lost"

PipelineStage == {STAGE_NEW, STAGE_QUALIFIED, STAGE_CONTACTED, STAGE_MEETING, STAGE_WON, STAGE_LOST}

\* Python truthiness of an Optional[str].
Truthy(s) == s # None /\ s # ""

\* ------------------------------------------------------- string helpers

Char(s, i) == SubSeq(s, i, i)

IsSpace(c) == c = " "

RECURSIVE LStrip(_)
LStrip(s) ==
    IF Len(s) = 0 THEN s
    ELSE IF IsSpace(Char(s, 1)) THEN LStrip(SubSeq(s, 2, Len(s)))
    ELSE s

RECURSIVE RStrip(_)
RStrip(s) ==
    IF Len(s) = 0 THEN s
    ELSE IF IsSpace(Char(s, Len(s))) THEN RStrip(SubSeq(s, 1, Len(s) - 1))
    ELSE s

\* str.strip()
Strip(s) == RStrip(LStrip(s))

LowerChar(c) ==
    CASE c = "A" -> "a"
      [] c = "B" -> "b"
      [] c = "C" -> "c"
      [] c = "I" -> "i"
      [] c = "M" -> "m"
      [] c = "L" -> "l"
      [] c = "N" -> "n"
      [] c = "Q" -> "q"
      [] c = "S" -> "s"
      [] c = "T" -> "t"
      [] c = "V" -> "v"
      [] OTHER -> c

RECURSIVE Lower(_)
Lower(s) ==
    IF Len(s) = 0 THEN s
    ELSE LowerChar(Char(s, 1)) \o Lower(SubSeq(s, 2, Len(s)))

\* SQL LIKE on already case-folded operands: % matches any run of
\* characters, _ matches one character.
RECURSIVE Like(_, _)
Like(v, p) ==
    IF Len(p) = 0 THEN Len(v) = 0
    ELSE IF Char(p, 1) = "%"
         THEN \E k \in 0..Len(v) :
                 Like(SubSeq(v, k + 1, Len(v)), SubSeq(p, 2, Len(p)))
    ELSE /\ Len(v) > 0
         /\ Char(p, 1) = "_" \/ Char(p, 1) = Char(v, 1)
         /\ Like(SubSeq(v, 2, Len(v)), SubSeq(p, 2, Len(p)))

\* Lead.company.ilike(pattern)
Ilike(v, p) == Like(Lower(v), Lower(p))

\* f"{score}" of a float holding an integer value
FloatStr(n) == ToString(n) \o ".0"

\* ------------------------------------------------------------ the store

\* Mutant: a new lead starts in the stage a good score would give it.
LeadQualified(company, name, t) ==
    [company |-> company, name |-> name, title |-> None, email |-> None,
     company_metadata |-> "{}", score |-> 0,
     stage |-> STAGE_QUALIFIED, created_at |-> t]

\* Lead(...) with the column defaults of models.py, and with what
\* create_lead stores for a payload that sets neither title, email nor
\* company_metadata: null, null and json.dumps({}).
Lead(company, name, t) ==
    [company |-> company, name |-> name, title |-> None, email |-> None,
     company_metadata |-> "{}", score |-> 0, stage |-> STAGE_NEW,
     created_at |-> t]

\* ActivityLog(...)
ActivityLog(id, lead_id, actor, action, detail, t) ==
    [id |-> id, lead_id |-> lead_id, actor |-> actor, action |-> action,
     detail |-> detail, created_at |-> t]

Store == [leads |-> leads, activities |-> activities,
          nextLeadId |-> nextLeadId, nextActId |-> nextActId]

\* session.get(Lead, lead_id) is not None
Exists(db, lead_id) == lead_id \in DOMAIN db.leads

\* The detail text log_activity stores; metadata is the json.dumps of the
\* dict the caller passes, or None when the caller passes none.
DetailText(action, detail, metadata) ==
    IF action \in {"qualification_completed", "outreach_generated"}
    THEN IF metadata # None
         THEN detail \o " " \o metadata
         ELSE IF Truthy(detail) THEN detail ELSE "No details provided"
    ELSE IF metadata # None
         THEN IF Truthy(detail) THEN detail \o " " \o metadata ELSE metadata
         ELSE detail

\* Mutant: the row takes the place of the newest row instead of a new one.
LogActivityOverwrite(db, lead_id, actor, action, detail, metadata, t) ==
    IF Len(db.activities) = 0
    THEN [db EXCEPT
            !.activities = <<ActivityLog(db.nextActId, lead_id, actor, action,
                                 DetailText(action, detail, metadata), t)>>,
            !.nextActId = @ + 1]
    ELSE [db EXCEPT
            !.activities[Len(db.activities)] =
                ActivityLog(@.id, lead_id, actor, action,
                            DetailText(action, detail, metadata), t)]

\* log_activity: one row appended and committed. Rows the session holds
\* dirty are flushed by the same commit; the callers below account for it.
LogActivity(db, lead_id, actor, action, detail, metadata, t) ==
    [db EXCEPT
        !.activities = Append(@, ActivityLog(db.nextActId, lead_id, actor,
                                  action, DetailText(action, detail, metadata), t)),
        !.nextActId = @ + 1]

\* ----------------------------------------------------- pipeline engine

\* Mutant: the no-change test is dropped.
StageChangesAlways(new_stage, old_stage) == TRUE

\* "Only proceed if the stage is actually changing"
StageChanges(new_stage, old_stage) == new_stage # old_stage

\* Mutant: source and target stage are exchanged in the text.
StageDetailSwapped(old_stage, new_stage, reason) ==
    "Stage changed from " \o new_stage \o " to " \o old_stage
        \o (IF Truthy(reason) THEN " - " \o reason ELSE "")

\* The detail of a stage_progression activity.
StageDetail(old_stage, new_stage, reason) ==
    "Stage changed from " \o old_stage \o " to " \o new_stage
        \o (IF Truthy(reason) THEN " - " \o reason ELSE "")

\* A service call returns the store it leaves, the exception it raises
\* ("ok" when none) and the lead it returns.
Result(db, exc, ret) == [db |-> db, exc |-> exc, ret |-> ret]

\* PipelineService.progress_lead_stage. The new stage is assigned on the
\* session's lead and first committed by log_activity's commit, together
\* with the activity row: when that write fails (fault) the exception
\* leaves the method and the transaction, stage included, is rolled back.
ProgressLeadStage(db, lead_id, new_stage, actor, reason, t, fault) ==
    IF ~Exists(db, lead_id) THEN Result(db, "ValueError", None)
    ELSE LET old_stage == db.leads[lead_id].stage IN
         IF ~StageChanges(new_stage, old_stage)
         THEN Result(db, "ok", db.leads[lead_id])
         ELSE IF fault THEN Result(db, "Exception", None)
         ELSE LET staged == [db EXCEPT !.leads[lead_id].stage = new_stage]
                  logged == LogActivity(staged, lead_id, actor,
                                "stage_progression",
                                StageDetail(old_stage, new_stage, reason),
                                None, t)
              IN Result(logged, "ok", logged.leads[lead_id])

QUALIFIED_SCORE == 60
HIGH_SCORE == 80

\* Mutant: the lower threshold is exclusive.
TargetStageExclusive(score) ==
    IF score > QUALIFIED_SCORE THEN STAGE_QUALIFIED ELSE STAGE_NEW

\* "Auto-progression rules based on score": the target stage
TargetStage(score) ==
    IF score >= HIGH_SCORE THEN STAGE_QUALIFIED
    ELSE IF score >= QUALIFIED_SCORE THEN STAGE_QUALIFIED
    ELSE STAGE_NEW

\* ... and the reason
AutoReason(score) ==
    IF score >= HIGH_SCORE
    THEN "High qualification score (" \o FloatStr(score)
             \o ") - auto-progressed to Qualified"
    ELSE IF score >= QUALIFIED_SCORE
    THEN "Good qualification score (" \o FloatStr(score)
             \o ") - auto-progressed to Qualified"
    ELSE "Low qualification score (" \o FloatStr(score)
             \o ") - kept at New stage"

\* Mutant: the target is compared with New instead of the current stage.
AutoStageDiffersFromNew(new_stage, old_stage) == new_stage # STAGE_NEW

\* "Only log stage progression if the stage actually changes"
AutoStageDiffers(new_stage, old_stage) == new_stage # old_stage

\* PipelineService.auto_progress_after_qualification: score only selects
\* the stage; the method writes no other column.
AutoProgressAfterQualification(db, lead_id, score, t, fault) ==
    IF ~Exists(db, lead_id) THEN Result(db, "ValueError", None)
    ELSE LET old_stage == db.leads[lead_id].stage
             new_stage == TargetStage(score)
         IN IF AutoStageDiffers(new_stage, old_stage)
            THEN ProgressLeadStage(db, lead_id, new_stage, "system",
                                   AutoReason(score), t, fault)
            ELSE LET same == [db EXCEPT !.leads[lead_id].stage = new_stage]
                 IN Result(same, "ok", same.leads[lead_id])

\* ------------------------------------------------------------- requests

\* Ids a request may name: every id handed out so far and one never used.
LeadIds == 1..nextLeadId

\* The server still takes requests.
Open == now < MaxRequests

\* What a request leaves behind: the store, the clock, the request's record.
Served(db, request, status, ret) ==
    /\ leads' = db.leads
    /\ activities' = db.activities
    /\ nextLeadId' = db.nextLeadId
    /\ nextActId' = db.nextActId
    /\ now' = now + 1
    /\ last' = [request EXCEPT !.status = status, !.ret = ret]
    /\ prev' = Store
    /\ inflight' = inflight

Request(op, lead_id, args) ==
    [op |-> op, lead_id |-> lead_id, args |-> args, status |-> 0, ret |-> None]

\* Mutant: the lookup's error is answered by the handler of every other
\* exception.
NotFoundAsInvalid(op, lead_id) ==
    Served(Store, Request(op, lead_id, <<>>), 400, None)

\* A request that names no stored lead is answered before its other
\* arguments are read; its record keeps the operation and the id.
NotFound(op, lead_id) == Served(Store, Request(op, lead_id, <<>>), 404, None)

\* POST /leads/{lead_id}/progress: the router passes the actor "user".
ProgressStage(lead_id, new_stage, reason, fault) ==
    Open /\
    LET r == ProgressLeadStage(Store, lead_id, new_stage, "user", reason, now, fault)
        request == Request("progress_lead_stage", lead_id,
                       [new_stage |-> new_stage, actor |-> "user",
                        reason |-> reason, fault |-> fault])
    IN CASE r.exc = "ok" -> Served(r.db, request, 200, r.ret)
         [] r.exc = "ValueError" -> NotFound("progress_lead_stage", lead_id)
         [] OTHER -> Served(r.db, request, 400, None)

\* PipelineService.auto_progress_after_qualification called on its own
AutoProgress(lead_id, score, fault) ==
    Open /\
    LET r == AutoProgressAfterQualification(Store, lead_id, score, now, fault)
        request == Request("auto_progress_after_qualification", lead_id,
                       [score |-> score, fault |-> fault])
    IN CASE r.exc = "ok" -> Served(r.db, request, 200, r.ret)
         [] r.exc = "ValueError" ->
                NotFound("auto_progress_after_qualification", lead_id)
         [] OTHER -> Served(r.db, request, 500, None)

\* Mutant: the pre-check compares the company names as they are written.
ExistingLeadExact(db, company) ==
    \E i \in DOMAIN db.leads : db.leads[i].company = Strip(company)

\* "Check for duplicate company names": the pre-check query finds a row.
ExistingLead(db, company) ==
    \E i \in DOMAIN db.leads : Ilike(db.leads[i].company, Strip(company))

\* POST /leads/
CreateLead(company, name, fault) ==
    Open /\
    LET request == Request("create_lead", nextLeadId,
                       [company |-> company, name |-> name, fault |-> fault])
    IN IF company = "" \/ Strip(company) = ""
       THEN Served(Store, request, 400, None)
       ELSE IF ExistingLead(Store, company)
       THEN Served(Store, request, 409, None)
       ELSE LET lead == Lead(Strip(company),
                            IF Truthy(name) THEN Strip(name) ELSE None, now)
                added == [Store EXCEPT
                            !.leads = @ @@ (nextLeadId :> lead),
                            !.nextLeadId = @ + 1]
                detail == "Lead created for " \o lead.company \o " - "
                            \o (IF Truthy(lead.name) THEN lead.name
                                ELSE "No contact name")
                logged == IF fault THEN added
                          ELSE LogActivity(added, nextLeadId, "system",
                                   "lead_created", detail, None, now)
            IN Served(logged, request, 200, lead)

\* PUT /leads/{lead_id}. The payload is the sequence of the fields the
\* caller set (exclude_unset), in schema order.
Keys(payload) == [k \in 1..Len(payload) |-> payload[k].f]

RECURSIVE ListRepr(_)
ListRepr(keys) ==
    IF Len(keys) = 0 THEN ""
    ELSE "'" \o keys[1] \o "'"
            \o (IF Len(keys) > 1 THEN ", " ELSE "") \o ListRepr(Tail(keys))

RECURSIVE SetAttrs(_, _)
SetAttrs(lead, payload) ==
    IF Len(payload) = 0 THEN lead
    ELSE SetAttrs([lead EXCEPT ![payload[1].f] = payload[1].v], Tail(payload))

\* Columns declared without Optional are NOT NULL.
NotNull == {"company", "stage"}

UpdateLead(lead_id, payload, fault) ==
    Open /\
    LET request == Request("update_lead", lead_id,
                       [payload |-> payload, fault |-> fault])
    IN IF ~Exists(Store, lead_id) THEN NotFound("update_lead", lead_id)
       ELSE LET lead == SetAttrs(leads[lead_id], payload)
                detail == "Updated fields: [" \o ListRepr(Keys(payload)) \o "]"
                saved == [Store EXCEPT
                            !.leads[lead_id] = lead,
                            !.activities = Append(@, ActivityLog(nextActId,
                                lead_id, "system", "updated lead", detail, now)),
                            !.nextActId = @ + 1]
            IN IF fault \/ \E f \in NotNull : lead[f] = None
               THEN Served(Store, request, 500, None)
               ELSE Served(saved, request, 200, lead)

\* Mutant: the lead is deleted and its activity rows are left.
DeleteLeadOnly(lead_id) ==
    Open /\
    IF ~Exists(Store, lead_id) THEN NotFound("delete_lead", lead_id)
    ELSE LET deleted == [Store EXCEPT
                 !.leads = [i \in DOMAIN @ \ {lead_id} |-> @[i]]]
         IN Served(deleted, Request("delete_lead", lead_id, <<>>), 200,
                   "deleted successfully")

\* DELETE /leads/{lead_id}: the lead's activity rows, then the lead.
DeleteLead(lead_id) ==
    Open /\
    IF ~Exists(Store, lead_id) THEN NotFound("delete_lead", lead_id)
    ELSE LET deleted == [Store EXCEPT
                 !.activities = SelectSeq(@, LAMBDA a : a.lead_id # lead_id),
                 !.leads = [i \in DOMAIN @ \ {lead_id} |-> @[i]]]
         IN Served(deleted, Request("delete_lead", lead_id, <<>>), 200,
                   "deleted successfully")

\* --------------------------------------------- the qualification reply

\* The text call_grok returns, as the sequence of its lexical pieces:
\* braces, blanks, prose, "key": value members, and bare JSON scalars.
\* A value is a number, a string or null.
LB == [t |-> "{"]
RB == [t |-> "}"]
Blank == [t |-> " "]
Prose == [t |-> "prose"]
Num(n) == [t |-> "num", n |-> n]
Str(x) == [t |-> "str", s |-> x]
Null == [t |-> "null"]
Member(k, v) == [t |-> "member", k |-> k, v |-> v]
Scalar(v) == [t |-> "scalar", v |-> v]
List(xs) == [t |-> "list", xs |-> xs]
Words(x) == [t |-> "words", s |-> x]

RECURSIVE StripLeft(_)
StripLeft(text) ==
    IF Len(text) > 0 /\ text[1] = Blank THEN StripLeft(Tail(text)) ELSE text

RECURSIVE StripRight(_)
StripRight(text) ==
    IF Len(text) > 0 /\ text[Len(text)] = Blank
    THEN StripRight(SubSeq(text, 1, Len(text) - 1))
    ELSE text

\* resp["text"].strip()
StripText(text) == StripRight(StripLeft(text))

\* The dict of a sequence of members; a repeated key keeps its last value.
RECURSIVE Dict(_)
Dict(members) ==
    IF Len(members) = 0 THEN <<>>
    ELSE LET m == members[Len(members)]
             rest == Dict(SubSeq(members, 1, Len(members) - 1))
         IN (m.k :> m.v) @@ rest

Failed == [ok |-> FALSE]

\* json.loads: an object is one pair of braces around members, a scalar
\* stands alone, blanks around the document are skipped; anything else
\* raises JSONDecodeError.
JsonLoads(raw) ==
    LET text == StripText(raw) IN
    IF /\ Len(text) >= 2
       /\ text[1] = LB
       /\ text[Len(text)] = RB
       /\ \A k \in 2..(Len(text) - 1) : text[k].t = "member"
    THEN [ok |-> TRUE, dict |-> TRUE,
          val |-> Dict(SubSeq(text, 2, Len(text) - 1))]
    ELSE IF Len(text) = 1 /\ text[1].t = "scalar"
    THEN [ok |-> TRUE, dict |-> FALSE, val |-> text[1].v]
    ELSE Failed

\* Mutant: a lazy pattern, stopping at the first closing brace.
RegexSearchLazy(text) ==
    LET opens == {k \in 1..Len(text) : text[k] = LB}
    IN IF opens = {} THEN <<>>
       ELSE LET first == CHOOSE k \in opens : \A j \in opens : k <= j
                closes == {k \in (first + 1)..Len(text) : text[k] = RB}
            IN IF closes = {} THEN <<>>
               ELSE SubSeq(text, first,
                           CHOOSE k \in closes : \A j \in closes : k <= j)

\* re.search(r"(\{.*\})", text, re.S): from the first opening brace to
\* the last closing brace after it; <<>> when there is no match.
RegexSearch(text) ==
    LET opens == {k \in 1..Len(text) : text[k] = LB}
        closes == {k \in 1..Len(text) : text[k] = RB}
    IN IF opens = {} \/ closes = {} THEN <<>>
       ELSE LET first == CHOOSE k \in opens : \A j \in opens : k <= j
                final == CHOOSE k \in closes : \A j \in closes : j <= k
            IN IF first < final THEN SubSeq(text, first, final) ELSE <<>>

\* Mutant: no second stage.
ParseReplyWholeOnly(text) == JsonLoads(text)

\* The two-stage parse of qualify: the whole text, else the braced region.
ParseReply(text) ==
    LET whole == JsonLoads(text)
        region == RegexSearch(text)
    IN IF whole.ok THEN whole
       ELSE IF region # <<>> THEN JsonLoads(region)
       ELSE Failed

\* The strings float() accepts, with their values.
NumericStrings == {"85"}
StrValue(x) == CASE x = "85" -> 85

\* float(v): a number, or the exception it raises.
Float(v) ==
    CASE v.t = "num" -> [ok |-> TRUE, n |-> v.n]
      [] v.t = "str" /\ v.s \in NumericStrings -> [ok |-> TRUE, n |-> StrValue(v.s)]
      [] v.t = "str" -> [ok |-> FALSE, exc |-> "ValueError"]
      [] OTHER -> [ok |-> FALSE, exc |-> "TypeError"]

\* s[:n]
Prefix(x, n) == IF Len(x) <= n THEN x ELSE SubSeq(x, 1, n)

JUSTIFICATION_PREVIEW == 100

\* The detail and the json.dumps of the metadata of the
\* qualification_completed activity.
QualificationDetail(score, justification) ==
    "AI qualification completed with score " \o FloatStr(score)
        \o "/100. Analysis: " \o Prefix(justification, JUSTIFICATION_PREVIEW)
        \o (IF Len(justification) > JUSTIFICATION_PREVIEW THEN "..." ELSE "")

QualificationMetadata(score, justification) ==
    "{\"score\": " \o FloatStr(score) \o ", \"justification\": \""
        \o justification \o "\", \"breakdown\": {}}"

MIN_WEIGHT == 1
MAX_WEIGHT == 10

\* Mutant: only the lower end of the range is tested.
WeightsValidLowerOnly(scoring_weights) ==
    \A k \in DOMAIN scoring_weights : scoring_weights[k] >= MIN_WEIGHT

\* "Validate scoring weights if provided"
WeightsValid(scoring_weights) ==
    \A k \in DOMAIN scoring_weights :
        scoring_weights[k] >= MIN_WEIGHT /\ scoring_weights[k] <= MAX_WEIGHT

\* The weights qualification_prompt falls back to.
DefaultWeights ==
    [company_size |-> 1, industry_fit |-> 2, funding |-> 1,
     decision_maker |-> 2, tech_stack |-> 1, revenue |-> 1]

\* "weights = scoring_weights or {...}": the empty dict is falsy (a null
\* map is the empty map here).
PromptWeights(scoring_weights) ==
    IF DOMAIN scoring_weights = {}
    THEN DefaultWeights
    ELSE scoring_weights

\* qualification_prompt: the criteria it explains, each with its weight,
\* and the weights it prints.
QualificationPrompt(scoring_weights) ==
    LET weights == PromptWeights(scoring_weights)
    IN [criteria |-> [k \in DOMAIN weights \cap DOMAIN DefaultWeights |-> weights[k]],
        weights |-> weights]

\* Mutant: the extracted score is clamped into [0, 100] before it is stored.
StoredScoreClamped(score) ==
    IF score > 100 THEN 100 ELSE IF score < 0 THEN 0 ELSE score

\* Mutant: the score column keeps its default.
StoredScoreDefault(score) == 0

\* The score qualify stores for the float it extracted.
StoredScore(score) == score

\* POST /leads/qualify. reply is what call_grok does: it raises GrokError
\* or returns a text. log_fault fails the write of the
\* qualification_completed activity, stage_fault that of the
\* stage_progression activity.
Qualify(lead_id, scoring_weights, reply, log_fault, stage_fault) ==
    Open /\
    LET request == Request("qualify", lead_id,
                       [scoring_weights |-> scoring_weights,
                        prompt |-> QualificationPrompt(scoring_weights),
                        reply |-> reply,
                        log_fault |-> log_fault, stage_fault |-> stage_fault])
        rejected == Request("qualify", lead_id,
                       [scoring_weights |-> scoring_weights])
        parsed == ParseReply(StripText(reply.text))
    IN IF lead_id <= 0 THEN Served(Store, rejected, 400, None)
       ELSE IF ~Exists(Store, lead_id) THEN NotFound("qualify", lead_id)
       ELSE IF ~WeightsValid(scoring_weights) THEN Served(Store, rejected, 400, None)
       ELSE IF reply.exc # "ok" THEN Served(Store, request, 502, "service error")
       ELSE IF ~parsed.ok \/ (parsed.dict = FALSE /\ parsed.val = Null)
       THEN Served(Store, request, 502, "invalid response format")
       ELSE IF ~parsed.dict
       THEN Served(Store, request, 500, "internal server error")
       ELSE IF "score" \notin DOMAIN parsed.val
       THEN Served(Store, request, 502, "missing required score field")
       ELSE LET score == Float(parsed.val["score"]) IN
            IF ~score.ok THEN Served(Store, request, 502, "invalid score format")
            ELSE
            LET scored == [Store EXCEPT !.leads[lead_id].score = StoredScore(score.n)]
                justification ==
                    IF "justification" \in DOMAIN parsed.val
                    THEN parsed.val["justification"]
                    ELSE Str("No justification provided")
                \* slicing a justification that is no string raises inside
                \* the try block, like a failed write
                logged ==
                    IF log_fault \/ justification.t # "str" THEN scored
                    ELSE LogActivity(scored, lead_id, "system",
                             "qualification_completed",
                             QualificationDetail(score.n, justification.s),
                             QualificationMetadata(score.n, justification.s), now)
                r == AutoProgressAfterQualification(logged, lead_id, score.n,
                                                    now, stage_fault)
                \* "Return the lead even if auto-progression fails"
                updated_lead == IF r.exc = "ok" THEN r.ret ELSE r.db.leads[lead_id]
            IN Served(r.db, request, 200,
                      [lead_id |-> lead_id, score |-> updated_lead.score,
                       stage |-> updated_lead.stage])

\* --------------------------------------------------- the outreach reply

\* The characters of a reply, piece by piece.
RECURSIVE JoinStr(_, _)
JoinStr(xs, sep) ==
    IF Len(xs) = 0 THEN ""
    ELSE IF Len(xs) = 1 THEN xs[1]
    ELSE xs[1] \o sep \o JoinStr(Tail(xs), sep)

RECURSIVE JsonDumps(_)
JsonDumps(v) ==
    CASE v.t = "num" -> ToString(v.n)
      [] v.t = "str" -> "\"" \o v.s \o "\""
      [] v.t = "null" -> "null"
      [] v.t = "list" ->
            "[" \o JoinStr([k \in 1..Len(v.xs) |-> JsonDumps(v.xs[k])], ", ")
                \o "]"

RenderPiece(piece) ==
    CASE piece.t = "{" -> "{"
      [] piece.t = "}" -> "}"
      [] piece.t = " " -> " "
      [] piece.t = "prose" -> "Here you go:"
      [] piece.t = "words" -> piece.s
      [] piece.t = "member" -> "\"" \o piece.k \o "\": " \o JsonDumps(piece.v)
      [] piece.t = "scalar" -> JsonDumps(piece.v)

\* Members of an object are separated by ", " in the text.
RECURSIVE Render(_)
Render(text) ==
    IF Len(text) = 0 THEN ""
    ELSE RenderPiece(text[1])
            \o (IF Len(text) > 1 /\ text[1].t = "member" /\ text[2].t = "member"
                THEN ", " ELSE "")
            \o Render(Tail(text))

BODY_LIMIT == 500

\* {"subject": "Hey", "body": text[:500], "tags": []}
Fallback(text) ==
    [ok |-> TRUE, dict |-> TRUE,
     val |-> [subject |-> Str("Hey"),
              body |-> Str(Prefix(Render(text), BODY_LIMIT)),
              tags |-> List(<<>>)]]

\* The parse of generate_outreach: the whole text, else the braced region,
\* else the fallback. What json.loads accepts is taken as it is, object
\* or not.
ParseOutreach(text) ==
    LET whole == JsonLoads(text)
        region == RegexSearch(text)
    IN IF whole.ok THEN whole
       ELSE IF region # <<>> /\ JsonLoads(region).ok THEN JsonLoads(region)
       ELSE Fallback(text)

\* dict.get(key, default)
Get(dict, key, default) == IF key \in DOMAIN dict THEN dict[key] ELSE default

\* f"{value}"
Format(v) ==
    CASE v.t = "num" -> ToString(v.n)
      [] v.t = "str" -> v.s
      [] v.t = "null" -> "None"
      [] v.t = "list" ->
            "[" \o JoinStr([k \in 1..Len(v.xs) |-> "'" \o v.xs[k].s \o "'"], ", ")
                \o "]"

\* bool(value)
TruthyValue(v) ==
    CASE v.t = "num" -> v.n # 0
      [] v.t = "str" -> v.s # ""
      [] v.t = "null" -> FALSE
      [] v.t = "list" -> Len(v.xs) > 0

\* value[:100] raises TypeError on a number and on None.
Sliceable(v) == v.t \in {"str", "list"}

\* ", ".join(tags) raises TypeError unless tags is a string or a list of
\* strings.
Joinable(v) ==
    \/ v.t = "str"
    \/ v.t = "list" /\ \A k \in 1..Len(v.xs) : v.xs[k].t = "str"

\* The statements between the parse and log_activity run without raising.
OutreachLoggable(parsed) ==
    /\ parsed.dict
    /\ Sliceable(Get(parsed.val, "body", Str("No message content")))
    /\ LET tags == Get(parsed.val, "tags", List(<<>>))
       IN TruthyValue(tags) => Joinable(tags)

OutreachDetail(parsed) ==
    LET tags == Get(parsed.val, "tags", List(<<>>))
        tags_text ==
            IF ~TruthyValue(tags) THEN "No tags"
            ELSE IF tags.t = "str" THEN tags.s
            ELSE JoinStr([k \in 1..Len(tags.xs) |-> tags.xs[k].s], ", ")
    IN "AI-generated outreach message created. Subject: '"
          \o Format(Get(parsed.val, "subject", Str("No subject")))
          \o "'. Tags: " \o tags_text

OutreachMetadata(parsed) ==
    "{\"subject\": " \o JsonDumps(Get(parsed.val, "subject", Str("No subject")))
        \o ", \"body\": " \o JsonDumps(Get(parsed.val, "body", Str("")))
        \o ", \"tags\": " \o JsonDumps(Get(parsed.val, "tags", List(<<>>)))
        \o "}"

\* POST /leads/outreach/{lead_id}
GenerateOutreach(lead_id, reply) ==
    Open /\
    LET request == Request("generate_outreach", lead_id, [reply |-> reply])
        parsed == ParseOutreach(reply.text)
        logged == LogActivity(Store, lead_id, "system", "outreach_generated",
                      OutreachDetail(parsed), OutreachMetadata(parsed), now)
    IN IF ~Exists(Store, lead_id) THEN NotFound("generate_outreach", lead_id)
       ELSE IF reply.exc # "ok" THEN Served(Store, request, 502, "service error")
       ELSE IF ~OutreachLoggable(parsed)
       THEN Served(Store, request, 500, "Internal Server Error")
       ELSE Served(logged, request, 200,
                   [lead_id |-> lead_id, outreach |-> parsed.val])

\* -------------------------------------------------------------- pruning

\* datetime.utcnow() - timedelta(days=days_to_keep); the clock counts days.
Cutoff(t, days_to_keep) == t - days_to_keep

\* Mutant: an activity created exactly at the cutoff counts as old.
IsOldInclusive(a, cutoff_date) == a.created_at <= cutoff_date

\* ActivityLog.created_at < cutoff_date
IsOld(a, cutoff_date) == a.created_at < cutoff_date

\* select(ActivityLog).where(ActivityLog.created_at < cutoff_date)
OldActivitiesByDate(db, cutoff_date) ==
    SelectSeq(db.activities, LAMBDA a : IsOld(a, cutoff_date))

\* The orders in which the store returns rows of equal created_at.
TieOrders == {"asc", "desc"}

\* order_by(ActivityLog.created_at.desc()): b is returned before a.
Before(b, a, tie) ==
    \/ b.created_at > a.created_at
    \/ /\ b.created_at = a.created_at
       /\ IF tie = "asc" THEN b.id < a.id ELSE b.id > a.id

\* select(ActivityLog).where(ActivityLog.lead_id == lead_id)
\*     .order_by(ActivityLog.created_at.desc())
LeadActivitiesDesc(db, lead_id, tie) ==
    LET rows == {db.activities[k] : k \in
                    {j \in DOMAIN db.activities : db.activities[j].lead_id = lead_id}}
        Rank(a) == 1 + Cardinality({b \in rows : Before(b, a, tie)})
    IN [r \in 1..Cardinality(rows) |-> CHOOSE a \in rows : Rank(a) = r]

\* Mutant: the slice keeps one row more.
SliceFromNext(xs, start) ==
    IF start + 1 >= Len(xs) THEN <<>> ELSE SubSeq(xs, start + 2, Len(xs))

\* xs[start:]
SliceFrom(xs, start) ==
    LET from == IF start >= 0
                THEN (IF start > Len(xs) THEN Len(xs) ELSE start)
                ELSE (IF Len(xs) + start < 0 THEN 0 ELSE Len(xs) + start)
    IN SubSeq(xs, from + 1, Len(xs))

\* Mutant: a lead with one row more than keep is left alone.
BeyondRecentLate(db, lead_id, keep, tie) ==
    LET rows == LeadActivitiesDesc(db, lead_id, tie)
    IN IF Len(rows) > keep + 1 THEN SliceFrom(rows, keep) ELSE <<>>

\* "if len(activities) > keep: ... activities[keep:]"
BeyondRecent(db, lead_id, keep, tie) ==
    LET rows == LeadActivitiesDesc(db, lead_id, tie)
    IN IF Len(rows) > keep THEN SliceFrom(rows, keep) ELSE <<>>

\* "for lead in leads: ... extend(...)", leads in primary-key order.
RECURSIVE OldActivitiesByCount(_, _, _, _)
OldActivitiesByCount(db, ids, keep, tie) ==
    IF ids = {} THEN <<>>
    ELSE LET first == CHOOSE i \in ids : \A j \in ids : i <= j
         IN BeyondRecent(db, first, keep, tie)
                \o OldActivitiesByCount(db, ids \ {first}, keep, tie)

\* Mutant: nothing is dropped from the concatenation.
DeduplicateNot(rows) == rows

\* "Combine and deduplicate by ID": the first occurrence stays.
RECURSIVE Deduplicate(_)
Deduplicate(rows) ==
    IF Len(rows) = 0 THEN <<>>
    ELSE LET init == Deduplicate(SubSeq(rows, 1, Len(rows) - 1))
             row == rows[Len(rows)]
         IN IF \E k \in DOMAIN init : init[k].id = row.id
            THEN init ELSE Append(init, row)

IdsOf(rows) == [k \in DOMAIN rows |-> rows[k].id]

\* "for activity in rows: session.delete(activity)" and the commit
DeleteActivities(db, rows) ==
    [db EXCEPT !.activities =
        SelectSeq(@, LAMBDA a : \A k \in DOMAIN rows : rows[k].id # a.id)]

PREVIEW_LIMIT == 10

\* Mutant: the preview is not cut.
PreviewAll(rows) == IdsOf(rows)

\* The preview of a dry run.
Preview(rows) == IdsOf(Prefix(rows, PREVIEW_LIMIT))

\* DELETE /leads/activities/cleanup
CleanupOldActivities(days_to_keep, keep_recent_per_lead, dry_run, tie) ==
    Open /\
    LET request == Request("cleanup_old_activities", 0,
                       [days_to_keep |-> days_to_keep,
                        keep_recent_per_lead |-> keep_recent_per_lead,
                        dry_run |-> dry_run, tie |-> tie])
        old_activities_by_date ==
            OldActivitiesByDate(Store, Cutoff(now, days_to_keep))
        old_activities_by_count ==
            OldActivitiesByCount(Store, DOMAIN leads, keep_recent_per_lead, tie)
        all_old_activities ==
            Deduplicate(old_activities_by_date \o old_activities_by_count)
    IN IF dry_run
       THEN Served(Store, request, 200,
                [old_activities_by_date |-> Len(old_activities_by_date),
                 old_activities_by_count |-> Len(old_activities_by_count),
                 total_to_delete |-> Len(all_old_activities),
                 activities_preview |-> Preview(all_old_activities)])
       ELSE Served(DeleteActivities(Store, all_old_activities), request, 200,
                [deleted_count |-> Len(all_old_activities)])

\* DELETE /leads/activities/clear-all
ClearAllActivities(dry_run) ==
    Open /\
    LET request == Request("clear_all_activities", 0, [dry_run |-> dry_run])
    IN IF dry_run
       THEN Served(Store, request, 200,
                [total_activities |-> Len(activities),
                 activities_preview |-> Preview(activities)])
       ELSE Served(DeleteActivities(Store, activities), request, 200,
                [deleted_count |-> Len(activities)])

\* scripts/cleanup_activities.py cleanup-days: what it finds, deletes and
\* leaves are what it prints.
ScriptCleanupOldActivities(days_to_keep, dry_run) ==
    Open /\
    LET request == Request("script_cleanup_old_activities", 0,
                       [days_to_keep |-> days_to_keep, dry_run |-> dry_run])
        old_activities == OldActivitiesByDate(Store, Cutoff(now, days_to_keep))
        pruned == IF dry_run THEN Store ELSE DeleteActivities(Store, old_activities)
    IN Served(pruned, request, 0,
              [found |-> IdsOf(old_activities),
               shown |-> Preview(old_activities),
               deleted_count |-> IF dry_run THEN 0 ELSE Len(old_activities),
               remaining |-> Len(pruned.activities)])

\* scripts/cleanup_activities.py cleanup-recent and cleanup-lead: a falsy
\* lead_id (None, 0) means every lead.
CleanupActivitiesByLead(lead_id, keep_recent, dry_run, tie) ==
    Open /\
    LET request == Request("script_cleanup_activities_by_lead", lead_id,
                       [keep_recent |-> keep_recent, dry_run |-> dry_run,
                        tie |-> tie])
        activities_to_delete ==
            IF lead_id # 0
            THEN BeyondRecent(Store, lead_id, keep_recent, tie)
            ELSE OldActivitiesByCount(Store, DOMAIN leads, keep_recent, tie)
        pruned == IF dry_run THEN Store
                  ELSE DeleteActivities(Store, activities_to_delete)
    IN Served(pruned, request, 0,
              [found |-> IdsOf(activities_to_delete),
               deleted_count |-> IF dry_run THEN 0 ELSE Len(activities_to_delete)])

\* --------------------------------------------------------------- search

\* json.dumps(payload.company_metadata or {}): the members of the dict in
\* the caller's order.
MetadataJson(members) == Render(<<LB>> \o members \o <<RB>>)

\* "x.strip() if x else None"
StripOrNone(x) == IF Truthy(x) THEN Strip(x) ELSE None

\* POST /leads/ with the searchable fields of the payload: the fields the
\* caller leaves out are None, company_metadata is the sequence of the
\* members of the dict.
CreateLeadFull(payload, fault) ==
    Open /\
    LET request == Request("create_lead", nextLeadId,
                       [company |-> payload.company, name |-> payload.name,
                        title |-> payload.title, email |-> payload.email,
                        company_metadata |-> payload.company_metadata,
                        fault |-> fault])
    IN IF payload.company = "" \/ Strip(payload.company) = ""
       THEN Served(Store, request, 400, None)
       ELSE IF ExistingLead(Store, payload.company)
       THEN Served(Store, request, 409, None)
       ELSE LET lead == [Lead(Strip(payload.company),
                              StripOrNone(payload.name), now)
                            EXCEPT !.title = StripOrNone(payload.title),
                                   !.email = StripOrNone(payload.email),
                                   !.company_metadata =
                                       MetadataJson(payload.company_metadata)]
                added == [Store EXCEPT
                            !.leads = @ @@ (nextLeadId :> lead),
                            !.nextLeadId = @ + 1]
                detail == "Lead created for " \o lead.company \o " - "
                            \o (IF Truthy(lead.name) THEN lead.name
                                ELSE "No contact name")
                logged == IF fault THEN added
                          ELSE LogActivity(added, nextLeadId, "system",
                                   "lead_created", detail, None, now)
            IN Served(logged, request, 200, lead)

\* "query in text"
Contains(text, query) ==
    \E k \in 0..(Len(text) - Len(query)) :
        SubSeq(text, k + 1, k + Len(query)) = query

\* text.startswith(query)
StartsWith(text, query) ==
    Len(query) <= Len(text) /\ SubSeq(text, 1, Len(query)) = query

\* "column and query in column.lower()" on a nullable column
ColumnContains(column, query) ==
    Truthy(column) /\ Contains(Lower(column), query)

\* column.ilike(f"%{query}%"); NULL matches nothing.
ColumnIlike(column, query) ==
    column # None /\ Ilike(column, "%" \o query \o "%")

COMPANY_SCORE == 10
PREFIX_BONUS == 5
NAME_SCORE == 8
TITLE_SCORE == 6
EMAIL_SCORE == 7
METADATA_SCORE == 4

\* Mutant: a company that starts with the query earns no more than one
\* that contains it.
RelevanceScoreNoBonus(lead, query) ==
    (IF Contains(Lower(lead.company), query) THEN COMPANY_SCORE ELSE 0)
    + (IF ColumnContains(lead.name, query) THEN NAME_SCORE ELSE 0)
    + (IF ColumnContains(lead.title, query) THEN TITLE_SCORE ELSE 0)
    + (IF ColumnContains(lead.email, query) THEN EMAIL_SCORE ELSE 0)
    + (IF ColumnContains(lead.company_metadata, query) THEN METADATA_SCORE ELSE 0)

\* SearchService._calculate_relevance_score; the floats hold integers.
RelevanceScore(lead, query) ==
    (IF Contains(Lower(lead.company), query)
     THEN COMPANY_SCORE
            + (IF StartsWith(Lower(lead.company), query) THEN PREFIX_BONUS ELSE 0)
     ELSE 0)
    + (IF ColumnContains(lead.name, query) THEN NAME_SCORE ELSE 0)
    + (IF ColumnContains(lead.title, query) THEN TITLE_SCORE ELSE 0)
    + (IF ColumnContains(lead.email, query) THEN EMAIL_SCORE ELSE 0)
    + (IF ColumnContains(lead.company_metadata, query) THEN METADATA_SCORE ELSE 0)

\* SearchService._get_match_type
MatchType(lead, query) ==
    IF Contains(Lower(lead.company), query) THEN "company"
    ELSE IF ColumnContains(lead.name, query) THEN "contact"
    ELSE IF ColumnContains(lead.title, query) THEN "title"
    ELSE IF ColumnContains(lead.email, query) THEN "email"
    ELSE IF ColumnContains(lead.company_metadata, query) THEN "metadata"
    ELSE "unknown"

ACTION_SCORE == 5
DETAIL_SCORE == 10
ACTOR_SCORE == 3

\* SearchService._calculate_activity_relevance
ActivityRelevance(activity, query) ==
    (IF Contains(Lower(activity.action), query) THEN ACTION_SCORE ELSE 0)
    + (IF Contains(Lower(activity.detail), query) THEN DETAIL_SCORE ELSE 0)
    + (IF Contains(Lower(activity.actor), query) THEN ACTOR_SCORE ELSE 0)

\* SearchService._get_activity_match_type
ActivityMatchType(activity, query) ==
    IF Contains(Lower(activity.action), query) THEN "action"
    ELSE IF Contains(Lower(activity.detail), query) THEN "detail"
    ELSE IF Contains(Lower(activity.actor), query) THEN "actor"
    ELSE "unknown"

\* The where clause of search_leads for a search type; no condition, and
\* no query, for a type that is none of the four.
LeadMatches(lead, query, search_type) ==
    \/ search_type \in {"all", "company"} /\ ColumnIlike(lead.company, query)
    \/ /\ search_type \in {"all", "contact"}
       /\ \/ ColumnIlike(lead.name, query)
          \/ ColumnIlike(lead.title, query)
          \/ ColumnIlike(lead.email, query)
    \/ search_type \in {"all", "metadata"}
          /\ ColumnIlike(lead.company_metadata, query)

\* The orders in which the store returns the rows of a select that has no
\* order_by.
RowOrders == {"asc", "desc"}

\* The ids in ids, in the order the store returns them.
RowsInOrder(ids, order) ==
    LET Rank(i) == 1 + Cardinality({j \in ids :
                        IF order = "asc" THEN j < i ELSE j > i})
    IN [r \in 1..Cardinality(ids) |-> CHOOSE i \in ids : Rank(i) = r]

\* results.sort(key=relevance_score, reverse=True): stable, rows of equal
\* score keep the order they came in.
SortByRelevance(results) ==
    LET n == Len(results)
        Rank(i) == 1 + Cardinality({j \in 1..n :
                        \/ results[j].relevance_score > results[i].relevance_score
                        \/ /\ results[j].relevance_score = results[i].relevance_score
                           /\ j < i})
    IN [r \in 1..n |-> results[CHOOSE i \in 1..n : Rank(i) = r]]

\* SearchService.search_leads
SearchLeadsRows(db, query, search_type, limit, order) ==
    LET query_lower == Lower(query)
        matching == {i \in DOMAIN db.leads :
                        LeadMatches(db.leads[i], query, search_type)}
        rows == Prefix(RowsInOrder(matching, order), limit)
        results == [k \in DOMAIN rows |->
                      [id |-> rows[k],
                       relevance_score |-> RelevanceScore(db.leads[rows[k]], query_lower),
                       match_type |-> MatchType(db.leads[rows[k]], query_lower)]]
    IN SortByRelevance(results)

\* The where clause of search_activities; "if lead_id:" filters on no lead
\* for 0 as for a request without the parameter, which 0 stands for here.
ActivityMatches(activity, query, lead_id) ==
    /\ \/ ColumnIlike(activity.action, query)
       \/ ColumnIlike(activity.detail, query)
       \/ ColumnIlike(activity.actor, query)
    /\ lead_id # 0 => activity.lead_id = lead_id

\* The rows in descending created_at order.
NewestFirst(rows, tie) ==
    LET Rank(a) == 1 + Cardinality({b \in rows : Before(b, a, tie)})
    IN [r \in 1..Cardinality(rows) |-> CHOOSE a \in rows : Rank(a) = r]

\* SearchService.search_activities
SearchActivitiesRows(db, query, lead_id, limit, tie) ==
    LET query_lower == Lower(query)
        matching == {db.activities[k] : k \in
                        {j \in DOMAIN db.activities :
                            ActivityMatches(db.activities[j], query, lead_id)}}
        rows == Prefix(NewestFirst(matching, tie), limit)
        results == [k \in DOMAIN rows |->
                      [id |-> rows[k].id,
                       lead_id |-> rows[k].lead_id,
                       lead_company |->
                           IF Exists(db, rows[k].lead_id)
                           THEN db.leads[rows[k].lead_id].company ELSE "Unknown",
                       relevance_score |-> ActivityRelevance(rows[k], query_lower),
                       match_type |-> ActivityMatchType(rows[k], query_lower)]]
    IN SortByRelevance(results)

\* The metadata documents a caller may send, as sequences of members.
MetadataDocs ==
    { <<>>,
      <<Member("industry", Str("SaaS"))>>,
      <<Member("industry", Str("Retail")),
        Member("tags", List(<<Str("saas"), Str("ai")>>)),
        Member("size", Num(50))>> }

\* json.loads(lead.company_metadata): the document whose serialization the
\* text is, among the documents above; no document, and an exception, for
\* any other text.
MetadataLoads(text) ==
    IF \E doc \in MetadataDocs : MetadataJson(doc) = text
    THEN [ok |-> TRUE, val |-> CHOOSE doc \in MetadataDocs : MetadataJson(doc) = text]
    ELSE [ok |-> FALSE, val |-> <<>>]

METADATA_RELEVANCE == 1

\* Mutant: the field filter is not applied.
FieldSelectedAny(member, metadata_field) == TRUE

\* "if metadata_field: metadata_field in metadata ..." keeps the member of
\* that key; without a field every member is looked at.
FieldSelected(member, metadata_field) ==
    Truthy(metadata_field) => member.k = metadata_field

\* The entries of one lead, in the order of the members of its document.
MetadataEntries(db, i, query_lower, metadata_field) ==
    LET loaded == MetadataLoads(db.leads[i].company_metadata)
        hits == IF ~Truthy(db.leads[i].company_metadata) \/ ~loaded.ok THEN <<>>
                ELSE SelectSeq(loaded.val,
                         LAMBDA member :
                             /\ FieldSelected(member, metadata_field)
                             /\ Contains(Lower(Format(member.v)), query_lower))
    IN [k \in DOMAIN hits |->
          [lead_id |-> i, field |-> hits[k].k, value |-> hits[k].v,
           relevance_score |-> METADATA_RELEVANCE]]

RECURSIVE MetadataOfRows(_, _, _, _)
MetadataOfRows(db, rows, query_lower, metadata_field) ==
    IF Len(rows) = 0 THEN <<>>
    ELSE MetadataEntries(db, rows[1], query_lower, metadata_field)
            \o MetadataOfRows(db, Tail(rows), query_lower, metadata_field)

\* SearchService.search_company_metadata: "results[:limit]" after the sort.
SearchMetadataRows(db, query, metadata_field, limit, order) ==
    LET rows == RowsInOrder({i \in DOMAIN db.leads :
                                db.leads[i].company_metadata # None}, order)
    IN Prefix(SortByRelevance(
                  MetadataOfRows(db, rows, Lower(query), metadata_field)), limit)

\* GET /leads/search/leads-only: a blank query is answered with no result
\* before the store is read.
SearchLeads(q, search_type, limit, order) ==
    Open /\
    LET request == Request("search_leads_only", 0,
                       [q |-> q, search_type |-> search_type, limit |-> limit,
                        order |-> order])
    IN IF Strip(q) = "" THEN Served(Store, request, 200, <<>>)
       ELSE Served(Store, request, 200,
                   SearchLeadsRows(Store, q, search_type, limit, order))

\* GET /leads/search/activities-only
SearchActivities(q, lead_id, limit, tie) ==
    Open /\
    LET request == Request("search_activities_only", 0,
                       [q |-> q, lead_id |-> lead_id, limit |-> limit,
                        tie |-> tie])
    IN IF Strip(q) = "" THEN Served(Store, request, 200, <<>>)
       ELSE Served(Store, request, 200,
                   SearchActivitiesRows(Store, q, lead_id, limit, tie))

\* GET /leads/search/metadata-only
SearchMetadata(q, field, limit, order) ==
    Open /\
    LET request == Request("search_metadata_only", 0,
                       [q |-> q, field |-> field, limit |-> limit,
                        order |-> order])
    IN IF Strip(q) = "" THEN Served(Store, request, 200, <<>>)
       ELSE Served(Store, request, 200,
                   SearchMetadataRows(Store, q, field, limit, order))

\* ------------------------------------------- requests that interleave

Workers == 1..MaxWorkers

Idle(w) == w \notin DOMAIN inflight

\* A request takes its first step and is not answered yet: it holds what
\* it read; the store, and the record of the last answer, stay.
Begun(w, request) ==
    /\ inflight' = inflight @@ (w :> request)
    /\ now' = now + 1
    /\ UNCHANGED <<leads, activities, nextLeadId, nextActId, last, prev>>

\* A request that began earlier takes its last step and is answered.
Finished(w, db, status, ret) ==
    /\ leads' = db.leads
    /\ activities' = db.activities
    /\ nextLeadId' = db.nextLeadId
    /\ nextActId' = db.nextActId
    /\ now' = now
    /\ last' = [inflight[w] EXCEPT !.status = status, !.ret = ret]
    /\ prev' = Store
    /\ inflight' = [v \in DOMAIN inflight \ {w} |-> inflight[v]]

\* create_lead up to the pre-check query: seen is what the query could see.
CreateLeadCheck(w, company, name) ==
    Open /\ Idle(w) /\
    LET request == Request("create_lead", 0,
                       [company |-> company, name |-> name,
                        seen |-> DOMAIN leads])
    IN IF company = "" \/ Strip(company) = ""
       THEN Served(Store, request, 400, None)
       ELSE IF ExistingLead(Store, company)
       THEN Served(Store, request, 409, None)
       ELSE Begun(w, request)

\* create_lead from "lead = Lead(...)" on: the insert, its commit, and the
\* lead_created activity.
CreateLeadInsert(w) ==
    /\ ~Idle(w)
    /\ inflight[w].op = "create_lead"
    /\ LET company == inflight[w].args.company
           name == inflight[w].args.name
           lead == Lead(Strip(company),
                        IF Truthy(name) THEN Strip(name) ELSE None, now)
           added == [Store EXCEPT
                        !.leads = @ @@ (nextLeadId :> lead),
                        !.nextLeadId = @ + 1]
           detail == "Lead created for " \o lead.company \o " - "
                        \o (IF Truthy(lead.name) THEN lead.name
                            ELSE "No contact name")
           logged == LogActivity(added, nextLeadId, "system", "lead_created",
                                 detail, None, now)
       IN Finished(w, logged, 200, [id |-> nextLeadId, lead |-> lead])

\* generate_outreach up to call_grok: the lead is looked up.
OutreachLookup(w, lead_id) ==
    Open /\ Idle(w) /\
    IF ~Exists(Store, lead_id) THEN NotFound("generate_outreach", lead_id)
    ELSE Begun(w, Request("generate_outreach", lead_id, <<>>))

\* What the store does with an activity row whose lead_id names no lead:
\* it rejects the insert, or it takes it.
OrphanInserts == {"IntegrityError", "stored"}

\* generate_outreach from the reply on. The session still holds the lead
\* it looked up and log_activity inserts with that id; the commit expires
\* the lead, and reading lead.id for the response reloads it.
OutreachWrite(w, reply, orphan) ==
    /\ ~Idle(w)
    /\ inflight[w].op = "generate_outreach"
    /\ LET lead_id == inflight[w].lead_id
           parsed == ParseOutreach(reply.text)
           logged == LogActivity(Store, lead_id, "system", "outreach_generated",
                         OutreachDetail(parsed), OutreachMetadata(parsed), now)
       IN IF reply.exc # "ok" THEN Finished(w, Store, 502, "service error")
          ELSE IF ~OutreachLoggable(parsed)
          THEN Finished(w, Store, 500, "Internal Server Error")
          ELSE IF Exists(Store, lead_id)
          THEN Finished(w, logged, 200,
                        [lead_id |-> lead_id, outreach |-> parsed.val])
          ELSE IF orphan = "IntegrityError"
          THEN Finished(w, Store, 500, "Internal Server Error")
          ELSE Finished(w, logged, 500, "Internal Server Error")

\* A live cleanup_old_activities up to its delete loop: the rows it
\* selected are held by its session.
CleanupSelect(w, days_to_keep, keep_recent_per_lead, tie) ==
    Open /\ Idle(w) /\
    LET old_activities_by_date ==
            OldActivitiesByDate(Store, Cutoff(now, days_to_keep))
        old_activities_by_count ==
            OldActivitiesByCount(Store, DOMAIN leads, keep_recent_per_lead, tie)
        all_old_activities ==
            Deduplicate(old_activities_by_date \o old_activities_by_count)
    IN Begun(w, Request("cleanup_old_activities", 0,
                    [days_to_keep |-> days_to_keep,
                     keep_recent_per_lead |-> keep_recent_per_lead,
                     dry_run |-> FALSE, tie |-> tie,
                     rows |-> all_old_activities]))

\* A live clear_all_activities up to its delete loop.
ClearAllSelect(w) ==
    Open /\ Idle(w) /\
    Begun(w, Request("clear_all_activities", 0,
                 [dry_run |-> FALSE, rows |-> activities]))

\* What the store does with the delete of a row that another transaction
\* deleted in the meantime: the statement matches no row and the commit
\* goes through, or the transaction fails.
StaleDeletes == {"ignored", "OperationalError"}

\* The delete loop and the commit of either run: deleted_count counts the
\* rows the session held, one per turn of the loop.
DeleteSelected(w, stale) ==
    /\ ~Idle(w)
    /\ inflight[w].op \in {"cleanup_old_activities", "clear_all_activities"}
    /\ LET rows == inflight[w].args.rows
           gone == \E k \in DOMAIN rows :
                      \A j \in DOMAIN activities : activities[j].id # rows[k].id
       IN IF gone /\ stale = "OperationalError"
          THEN Finished(w, Store, 500, "Internal Server Error")
          ELSE Finished(w, DeleteActivities(Store, rows), 200,
                        [deleted_count |-> Len(rows)])

\* progress_lead_stage up to "lead.stage = new_stage": the session holds
\* the lead as it read it; seen is the next activity id at that moment.
ProgressRead(w, lead_id, new_stage) ==
    Open /\ Idle(w) /\
    IF ~Exists(Store, lead_id) THEN NotFound("progress_lead_stage", lead_id)
    ELSE LET old_stage == leads[lead_id].stage
             request == Request("progress_lead_stage", lead_id,
                            [new_stage |-> new_stage, actor |-> "user",
                             reason |-> None, old_stage |-> old_stage,
                             seen |-> nextActId])
         IN IF ~StageChanges(new_stage, old_stage)
            THEN Served(Store, request, 200, leads[lead_id])
            ELSE Begun(w, request)

\* auto_progress_after_qualification up to the same point of the
\* progress_lead_stage it calls, which gets the lead from the session
\* and not from the store again. When the target is the stage it read,
\* the assignment changes nothing and the commit writes nothing.
AutoRead(w, lead_id, score) ==
    Open /\ Idle(w) /\
    IF ~Exists(Store, lead_id)
    THEN NotFound("auto_progress_after_qualification", lead_id)
    ELSE LET old_stage == leads[lead_id].stage
             new_stage == TargetStage(score)
             request == Request("auto_progress_after_qualification", lead_id,
                            [new_stage |-> new_stage, actor |-> "system",
                             reason |-> AutoReason(score),
                             old_stage |-> old_stage, seen |-> nextActId])
         IN IF ~AutoStageDiffers(new_stage, old_stage)
            THEN Served(Store, request, 200, leads[lead_id])
            ELSE Begun(w, request)

\* What the store does with the update of a lead row that another
\* transaction updated after this one read it: it writes the row, or it
\* fails the transaction.
StaleUpdates == {"written", "OperationalError"}

\* progress_lead_stage from "lead.stage = new_stage" on: the stage and the
\* stage_progression activity, whose detail names the stage that was read,
\* are written by log_activity's commit.
StageWrite(w, stale) ==
    /\ ~Idle(w)
    /\ inflight[w].op \in {"progress_lead_stage",
                           "auto_progress_after_qualification"}
    /\ LET lead_id == inflight[w].lead_id
           args == inflight[w].args
           overwritten ==
               \E k \in DOMAIN activities :
                   /\ activities[k].lead_id = lead_id
                   /\ activities[k].action = "stage_progression"
                   /\ activities[k].id >= args.seen
           failed == IF inflight[w].op = "progress_lead_stage" THEN 400 ELSE 500
           held == [Store EXCEPT !.leads[lead_id].stage = args.old_stage]
           r == ProgressLeadStage(held, lead_id, args.new_stage, args.actor,
                                  args.reason, now, FALSE)
       IN IF ~Exists(Store, lead_id) \/ (overwritten /\ stale = "OperationalError")
          THEN Finished(w, Store, failed, None)
          ELSE Finished(w, r.db, 200, r.ret)

\* ------------------------------------------------- the requests drawn

Companies == {"Acme AI", " acme ai", "Beta", " "}
Names == {None, "Ann "}
Reasons == {None, "manual"}
Scores == {59, 60, 80}
Payloads ==
    {<<>>, <<[f |-> "name", v |-> "Bob"]>>}
        \cup {<<[f |-> "stage", v |-> s]>> : s \in PipelineStage}
Weights == {<<>>, [funding |-> 11], [funding |-> 0]}

Text(text) == [exc |-> "ok", text |-> text]

\* What the text-generation service may answer.
GrokError == [exc |-> "GrokError", text |-> <<>>]
ReplyPlain ==
    Text(<<LB, Member("score", Num(85)),
           Member("justification", Str("strong fit")), RB>>)
ReplyEmbedded == Text(<<Prose, LB, Member("score", Num(60)), RB, Blank>>)
ReplyLow ==
    Text(<<LB, Member("score", Num(30)), Member("justification", Null), RB>>)
ReplyOutOfRange == Text(<<LB, Member("score", Num(150)), RB>>)
ReplyNumericString == Text(<<LB, Member("score", Str("85")), RB>>)
ReplyGarbage == Text(<<Prose, Prose>>)
ReplyUnclosed == Text(<<Prose, LB, Prose>>)
ReplyNoScore == Text(<<LB, Member("justification", Str("no score")), RB>>)
ReplyWordScore == Text(<<LB, Member("score", Str("high")), RB>>)
ReplyNullScore == Text(<<LB, Member("score", Null), RB>>)
ReplyBareNumber == Text(<<Scalar(Num(85))>>)
ReplyTwoObjects ==
    Text(<<LB, Member("score", Num(85)), RB, Prose,
           LB, Member("score", Num(30)), RB>>)

Replies ==
    { GrokError, ReplyPlain, ReplyEmbedded, ReplyLow, ReplyOutOfRange,
      ReplyNumericString, ReplyGarbage, ReplyUnclosed, ReplyNoScore,
      ReplyWordScore, ReplyNullScore, ReplyBareNumber, ReplyTwoObjects }

\* What the text-generation service may answer to an outreach prompt.
RECURSIVE Repeat(_, _)
Repeat(x, n) == IF n = 0 THEN "" ELSE x \o Repeat(x, n - 1)

OutreachPlain ==
    Text(<<Blank, LB, Member("subject", Str("Quick intro")),
           Member("body", Str("Hello Ann")),
           Member("tags", List(<<Str("saas"), Str("seed")>>)), RB>>)
OutreachEmbedded ==
    Text(<<Prose, LB, Member("subject", Str("Quick intro")), RB, Blank>>)
OutreachProse == Text(<<Prose, Blank, Words("Hello Ann, shall we talk?")>>)
OutreachLong == Text(<<Words(Repeat("Hello Ann. ", 50))>>)
OutreachUnclosed == Text(<<Prose, LB, Prose, RB>>)
OutreachBareString == Text(<<Scalar(Str("Hello Ann"))>>)
OutreachNull == Text(<<Scalar(Null)>>)
OutreachNullBody ==
    Text(<<LB, Member("subject", Str("Quick intro")), Member("body", Null), RB>>)

OutreachReplies ==
    { GrokError, OutreachPlain, OutreachEmbedded, OutreachProse, OutreachLong,
      OutreachUnclosed, OutreachBareString, OutreachNull, OutreachNullBody }

\* The requests drawn when every operation is in play.
OpsCompanies == {"Acme AI", " acme ai", "Beta"}
OpsPayloads ==
    { <<>>,
      <<[f |-> "company", v |-> "acme ai"]>>,
      <<[f |-> "company", v |-> ""]>> }
OpsWeights ==
    { <<>>, [funding |-> 3],
      [company_size |-> 2, industry_fit |-> 3, funding |-> 4,
       decision_maker |-> 5, tech_stack |-> 6, revenue |-> 7] }

\* ------------------------------------------------------- specification

Init ==
    /\ leads = <<>>
    /\ activities = <<>>
    /\ nextLeadId = 1
    /\ nextActId = 1
    /\ now = 0
    /\ last = NoRequest
    /\ prev = [leads |-> <<>>, activities |-> <<>>,
               nextLeadId |-> 1, nextActId |-> 1]
    /\ inflight = <<>>

\* Every write to the store succeeds.
Next ==
    \/ \E c \in Companies, n \in Names : CreateLead(c, n, FALSE)
    \/ \E i \in LeadIds, s \in PipelineStage, r \in Reasons :
          ProgressStage(i, s, r, FALSE)
    \/ \E i \in LeadIds, s \in Scores : AutoProgress(i, s, FALSE)
    \/ \E i \in LeadIds, p \in Payloads : UpdateLead(i, p, FALSE)
    \/ \E i \in LeadIds, w \in Weights, g \in Replies :
          Qualify(i, w, g, FALSE, FALSE)

Spec == Init /\ [][Next]_vars

\* The write of an activity row may fail.
NextFault ==
    \/ \E c \in Companies, n \in Names, f \in BOOLEAN : CreateLead(c, n, f)
    \/ \E i \in LeadIds, s \in PipelineStage, r \in Reasons, f \in BOOLEAN :
          ProgressStage(i, s, r, f)
    \/ \E i \in LeadIds, s \in Scores, f \in BOOLEAN : AutoProgress(i, s, f)
    \/ \E i \in LeadIds, p \in Payloads, f \in BOOLEAN : UpdateLead(i, p, f)
    \/ \E i \in LeadIds, w \in Weights, g \in Replies, f1 \in BOOLEAN, f2 \in BOOLEAN :
          Qualify(i, w, g, f1, f2)

SpecFault == Init /\ [][NextFault]_vars

\* The store returns rows of equal created_at in either order; with no
\* such rows the order is one.
Ties ==
    IF \E j, k \in DOMAIN activities :
          /\ j # k
          /\ activities[j].lead_id = activities[k].lead_id
          /\ activities[j].created_at = activities[k].created_at
    THEN TieOrders ELSE {"asc"}

\* Every operation, one request after the other.
NextOps ==
    \/ \E c \in OpsCompanies : CreateLead(c, None, FALSE)
    \/ \E i \in LeadIds, p \in OpsPayloads : UpdateLead(i, p, FALSE)
    \/ \E i \in LeadIds : DeleteLead(i)
    \/ \E i \in LeadIds, s \in {STAGE_QUALIFIED, STAGE_WON} :
          ProgressStage(i, s, None, FALSE)
    \/ \E i \in LeadIds, s \in {59, 80} : AutoProgress(i, s, FALSE)
    \/ \E i \in LeadIds, w \in OpsWeights : Qualify(i, w, ReplyPlain, FALSE, FALSE)
    \/ \E i \in LeadIds, g \in OutreachReplies : GenerateOutreach(i, g)
    \/ \E d \in {0, 1}, k \in {0, 1}, dry_run \in BOOLEAN, tie \in Ties :
          CleanupOldActivities(d, k, dry_run, tie)
    \/ \E dry_run \in BOOLEAN : ClearAllActivities(dry_run)
    \/ \E d \in {0, 1}, dry_run \in BOOLEAN : ScriptCleanupOldActivities(d, dry_run)
    \/ \E i \in {0, 1}, dry_run \in BOOLEAN, tie \in Ties :
          CleanupActivitiesByLead(i, 1, dry_run, tie)

SpecOps == Init /\ [][NextOps]_vars

\* Creation with the write of the lead_created activity failing or not,
\* among deletions and stage changes.
NextCreate ==
    \/ \E c \in Companies, n \in Names, fault \in BOOLEAN : CreateLead(c, n, fault)
    \/ \E i \in LeadIds : DeleteLead(i)
    \/ \E i \in LeadIds : ProgressStage(i, STAGE_QUALIFIED, None, FALSE)

SpecCreate == Init /\ [][NextCreate]_vars

\* Requests that overlap: a create between its pre-check and its insert,
\* an outreach between its lookup and its activity write, a live pruning
\* run between its selection and its deletes.
RaceCompanies == {"Acme AI", " acme ai", "Beta"}
RaceReplies == {GrokError, OutreachPlain, OutreachProse, OutreachNull}

NextRace ==
    \/ \E w \in Workers, c \in RaceCompanies : CreateLeadCheck(w, c, None)
    \/ \E w \in Workers : CreateLeadInsert(w)
    \/ \E w \in Workers, i \in LeadIds : OutreachLookup(w, i)
    \/ \E w \in Workers, g \in RaceReplies, o \in OrphanInserts :
          OutreachWrite(w, g, o)
    \/ \E i \in LeadIds : DeleteLead(i)
    \/ \E w \in Workers, k \in {0, 1}, tie \in Ties : CleanupSelect(w, 0, k, tie)
    \/ \E w \in Workers : ClearAllSelect(w)
    \/ \E w \in Workers, stale \in StaleDeletes : DeleteSelected(w, stale)

SpecRace == Init /\ [][NextRace]_vars

\* Stage changes that overlap, on the leads that creation stored: only
\* progress_lead_stage and auto_progress_after_qualification change a stage.
RaceStages == {STAGE_QUALIFIED, STAGE_CONTACTED, STAGE_WON}

NextStages ==
    \/ \E c \in {"Acme AI", "Beta"} : CreateLead(c, None, FALSE)
    \/ \E w \in Workers, i \in LeadIds, s \in RaceStages : ProgressRead(w, i, s)
    \/ \E w \in Workers, i \in LeadIds, score \in {59, 80} : AutoRead(w, i, score)
    \/ \E w \in Workers, stale \in StaleUpdates : StageWrite(w, stale)

SpecStages == Init /\ [][NextStages]_vars

\* The leads the searches are run over: a company that starts with the
\* query, one that holds it further in, a contact that holds it, and
\* metadata of one and of three members.
SearchPayloads ==
    { [company |-> "Acme AI", name |-> None, title |-> None, email |-> None,
       company_metadata |-> <<>>],
      [company |-> "Big Acme", name |-> None, title |-> "Sales",
       email |-> None,
       company_metadata |->
           <<Member("industry", Str("Retail")),
             Member("tags", List(<<Str("saas"), Str("ai")>>)),
             Member("size", Num(50))>>],
      [company |-> "Beta", name |-> "Ann Acme", title |-> None,
       email |-> "ann@beta.io",
       company_metadata |-> <<Member("industry", Str("SaaS"))>>] }

\* The queries, one of them blank, and the limits, which two and three
\* matching records exceed.
Queries == {"acme", "saas", "c", " "}

NextSearch ==
    \/ \E payload \in SearchPayloads : CreateLeadFull(payload, FALSE)
    \/ \E i \in DOMAIN leads : ProgressStage(i, STAGE_QUALIFIED, None, FALSE)
    \/ \E q \in Queries, limit \in {1, 2}, order \in RowOrders,
          search_type \in {"all", "company", "contact", "metadata"} :
            SearchLeads(q, search_type, limit, order)
    \/ \E q \in Queries, i \in {0} \cup DOMAIN leads, limit \in {1, 2},
          tie \in TieOrders :
            SearchActivities(q, i, limit, tie)
    \/ \E q \in Queries, field \in {None, "industry", "tags"},
          limit \in {1, 2}, order \in RowOrders :
            SearchMetadata(q, field, limit, order)

SpecSearch == Init /\ [][NextSearch]_vars

\* -------------------------------------------------------- properties

\* The activities the last request wrote.
NewActivities == SelectSeq(activities, LAMBDA a : a.id >= prev.nextActId)

\* ... those among them that record a stage progression of lead i.
NewStageActivities(i) ==
    SelectSeq(NewActivities,
              LAMBDA a : a.lead_id = i /\ a.action = "stage_progression")

\* The lead the last request names was stored when the request arrived.
OnStoredLead == last.lead_id \in DOMAIN prev.leads

IsPrefix(x, y) == Len(x) <= Len(y) /\ SubSeq(y, 1, Len(x)) = x

\* The score each reply carries, for the replies that carry one.
ExpectedScore ==
    (ReplyPlain :> 85) @@ (ReplyEmbedded :> 60) @@ (ReplyLow :> 30)
        @@ (ReplyOutOfRange :> 150) @@ (ReplyNumericString :> 85)

\* The last request is a qualify that reached the text-generation call.
QualifyCalled == last.op = "qualify" /\ "reply" \in DOMAIN last.args

\* C1: a stage_progression activity is written for a lead if and only if
\* the request changed that lead's stored stage: one activity per change,
\* none when the stage is left as it was.
C1_StageLoggedIffChanged ==
    \A i \in DOMAIN leads :
        LET changed == /\ i \in DOMAIN prev.leads
                       /\ leads[i].stage # prev.leads[i].stage
        IN Len(NewStageActivities(i)) = (IF changed THEN 1 ELSE 0)

\* C2: progressStage to the stage the lead is already in is a no-op: no
\* activity is created and every field of every lead is left unchanged.
C2_SameStageNoOp ==
    (/\ last.op = "progress_lead_stage"
     /\ OnStoredLead
     /\ last.args.new_stage = prev.leads[last.lead_id].stage)
    => /\ last.status = 200
       /\ leads = prev.leads
       /\ activities = prev.activities
       /\ last.ret = prev.leads[last.lead_id]

C2_Witness ==
    /\ last.op = "progress_lead_stage"
    /\ OnStoredLead
    /\ last.args.new_stage = prev.leads[last.lead_id].stage
    /\ last.args.new_stage = STAGE_MEETING
    /\ Len(activities) > 0

\* C3: progressStage to a stage other than the current one stores the new
\* stage and appends exactly one activity for the lead, with action
\* stage_progression, the caller's actor, and a detail naming the old
\* stage as source and the new stage as target.
C3_StageChangeLogged ==
    (/\ last.op = "progress_lead_stage"
     /\ OnStoredLead
     /\ last.args.new_stage # prev.leads[last.lead_id].stage)
    => LET old == prev.leads[last.lead_id].stage
           new == last.args.new_stage
       IN /\ last.status = 200
          /\ leads[last.lead_id].stage = new
          /\ Len(NewActivities) = 1
          /\ activities = Append(prev.activities, NewActivities[1])
          /\ NewActivities[1].lead_id = last.lead_id
          /\ NewActivities[1].action = "stage_progression"
          /\ NewActivities[1].actor = last.args.actor
          /\ IsPrefix("Stage changed from " \o old \o " to " \o new,
                      NewActivities[1].detail)

C3_Witness ==
    /\ last.op = "progress_lead_stage"
    /\ OnStoredLead
    /\ prev.leads[last.lead_id].stage = STAGE_WON
    /\ leads[last.lead_id].stage = STAGE_CONTACTED
    /\ Len(NewActivities) = 1

\* The score the last request handed to autoProgressAfterQualification.
AutoScore ==
    IF last.op = "qualify" THEN ExpectedScore[last.args.reply]
    ELSE last.args.score

\* The last request ran autoProgressAfterQualification on a stored lead.
AutoRan ==
    \/ last.op = "auto_progress_after_qualification" /\ OnStoredLead
    \/ QualifyCalled /\ last.status = 200

\* C4: whatever the lead's stage was, after
\* autoProgressAfterQualification(lead, s) it is Qualified if s >= 60 and
\* New if s < 60.
C4_AutoProgressTarget ==
    AutoRan =>
        /\ AutoScore >= 60 => leads[last.lead_id].stage = STAGE_QUALIFIED
        /\ AutoScore < 60 => leads[last.lead_id].stage = STAGE_NEW

C4_Witness ==
    /\ last.op = "auto_progress_after_qualification"
    /\ OnStoredLead
    /\ prev.leads[last.lead_id].stage = STAGE_WON
    /\ last.args.score < 60
    /\ leads[last.lead_id].stage = STAGE_NEW

C6_AutoProgressLogging ==
    AutoRan =>
        LET target == IF AutoScore >= 60 THEN STAGE_QUALIFIED ELSE STAGE_NEW
            written == NewStageActivities(last.lead_id)
        IN IF target = prev.leads[last.lead_id].stage
           THEN Len(written) = 0
           ELSE Len(written) = 1 /\ written[1].actor = "system"

C6_Witness ==
    /\ last.op = "auto_progress_after_qualification"
    /\ OnStoredLead
    /\ prev.leads[last.lead_id].stage = STAGE_NEW
    /\ last.args.score = 80
    /\ Len(NewStageActivities(last.lead_id)) = 1

\* C7: every stored lead's score lies in [0, 100], whatever numeric
\* score the text-generation call returns.
C7_ScoreInRange ==
    \A i \in DOMAIN leads : leads[i].score >= 0 /\ leads[i].score <= 100

\* C7, amended: a lead's score is 0 from its creation until a successful
\* qualify replaces it with the numeric score extracted from the reply,
\* stored as extracted, also when that lies outside [0, 100]; no other
\* request changes it.
C7_ScoreIsLastExtracted ==
    \A i \in DOMAIN leads :
        IF i \notin DOMAIN prev.leads THEN leads[i].score = 0
        ELSE IF QualifyCalled /\ last.lead_id = i
                /\ last.args.reply \in DOMAIN ExpectedScore
        THEN last.status = 200 /\ leads[i].score = ExpectedScore[last.args.reply]
        ELSE leads[i].score = prev.leads[i].score

C7_Witness ==
    /\ QualifyCalled
    /\ last.args.reply = ReplyOutOfRange
    /\ last.status = 200
    /\ leads[last.lead_id].score = 150

\* The replies no score can be taken from, the failed call included.
UnusableReplies == Replies \ DOMAIN ExpectedScore

\* C8: a qualify that fails because the external call fails or because
\* no usable score can be extracted from the reply leaves every lead's
\* score and stage as they were and adds no activity.
C8_FailedQualifyChangesNothing ==
    (QualifyCalled /\ last.args.reply \in UnusableReplies)
    => /\ last.status \in {500, 502}
       /\ leads = prev.leads
       /\ activities = prev.activities

C8_Witness ==
    /\ QualifyCalled
    /\ last.args.reply = ReplyGarbage
    /\ last.status = 502
    /\ prev.leads[last.lead_id].score = 85
    /\ leads[last.lead_id].score = 85
    /\ leads[last.lead_id].stage = STAGE_QUALIFIED

\* C9: a successful qualify of a lead in stage New with extracted score s
\* ends, when s >= 60, with the lead in Qualified with score s and exactly
\* one new stage_progression activity for it, also when the score object
\* follows leading prose; when s < 60 the lead stays in New and no
\* stage_progression activity is added.
C9_QualifyFromNew ==
    (/\ QualifyCalled
     /\ last.args.reply \in DOMAIN ExpectedScore
     /\ prev.leads[last.lead_id].stage = STAGE_NEW)
    => LET s == ExpectedScore[last.args.reply]
           written == NewStageActivities(last.lead_id)
       IN /\ last.status = 200
          /\ leads[last.lead_id].score = s
          /\ last.ret.score = s
          /\ last.ret.stage = leads[last.lead_id].stage
          /\ IF s >= 60
             THEN leads[last.lead_id].stage = STAGE_QUALIFIED /\ Len(written) = 1
             ELSE leads[last.lead_id].stage = STAGE_NEW /\ Len(written) = 0

C9_Witness ==
    /\ QualifyCalled
    /\ last.args.reply = ReplyEmbedded
    /\ prev.leads[last.lead_id].stage = STAGE_NEW
    /\ leads[last.lead_id].stage = STAGE_QUALIFIED
    /\ leads[last.lead_id].score = 60
    /\ Len(NewStageActivities(last.lead_id)) = 1

\* C10: when the write of the activity fails, the lead change it was to
\* record (the created lead, the score stored by qualify, the stage set by
\* progressStage) is persisted all the same and the caller gets the
\* response of a request whose logging succeeded.
C10_CreateSurvivesLogFailure ==
    (last.op = "create_lead" /\ last.args.fault /\ last.status \notin {400, 409})
    => /\ last.status = 200
       /\ last.lead_id \in DOMAIN leads
       /\ leads[last.lead_id] = last.ret

C10_ScoreSurvivesLogFailure ==
    (/\ QualifyCalled
     /\ last.args.log_fault
     /\ last.args.reply \in DOMAIN ExpectedScore)
    => /\ last.status = 200
       /\ leads[last.lead_id].score = ExpectedScore[last.args.reply]
       /\ last.ret.score = ExpectedScore[last.args.reply]

C10_StageSurvivesLogFailure ==
    (/\ last.op = "progress_lead_stage"
     /\ OnStoredLead
     /\ last.args.fault
     /\ last.args.new_stage # prev.leads[last.lead_id].stage)
    => /\ last.status = 200
       /\ leads[last.lead_id].stage = last.args.new_stage

C10_LogFailureNotFatal ==
    /\ C10_CreateSurvivesLogFailure
    /\ C10_ScoreSurvivesLogFailure
    /\ C10_StageSurvivesLogFailure

\* Pruning, from the stores that earlier requests left: two leads, lead 1
\* with up to MaxSeed activities, lead 2 with none or two that are older or
\* newer than all of lead 1's; one activity a day, or two.
\* The clock of such a store: two requests are still served.
PruneStart == MaxRequests - 2

SeedTime(j, n, paired) ==
    IF paired THEN PruneStart - ((n - j) \div 2) - 1 ELSE PruneStart - n + j - 1

SeedStore(n1, n2, newest, paired) ==
    LET n == n1 + n2
        t0 == PruneStart - n - 1
        lead_of(j) == IF newest THEN (IF j > n1 THEN 2 ELSE 1)
                      ELSE (IF j <= n2 THEN 2 ELSE 1)
    IN [leads |-> (1 :> Lead("Acme AI", None, t0)) @@ (2 :> Lead("Beta", None, t0)),
        activities |-> [j \in 1..n |->
            ActivityLog(j, lead_of(j), "system", "updated lead",
                        "Updated fields: []", SeedTime(j, n, paired))],
        nextLeadId |-> 3,
        nextActId |-> n + 1]

SeedStores ==
    { SeedStore(n1, n2, newest, paired) :
        n1 \in 0..MaxSeed, n2 \in {0, 2}, newest \in BOOLEAN, paired \in BOOLEAN }

InitPrune ==
    \E db \in SeedStores :
        /\ leads = db.leads
        /\ activities = db.activities
        /\ nextLeadId = db.nextLeadId
        /\ nextActId = db.nextActId
        /\ now = PruneStart
        /\ last = NoRequest
        /\ prev = db
        /\ inflight = <<>>

PruneDays == {0, 3, 7}
KeepCounts == {0, 2, 5}

NextPrune ==
    \/ \E d \in PruneDays, k \in KeepCounts, dry_run \in BOOLEAN, tie \in Ties :
          CleanupOldActivities(d, k, dry_run, tie)
    \/ \E dry_run \in BOOLEAN : ClearAllActivities(dry_run)
    \/ \E d \in PruneDays, dry_run \in BOOLEAN :
          ScriptCleanupOldActivities(d, dry_run)
    \/ \E i \in 0..2, k \in KeepCounts, dry_run \in BOOLEAN, tie \in Ties :
          CleanupActivitiesByLead(i, k, dry_run, tie)

SpecPrune == InitPrune /\ [][NextPrune]_vars

\* C11: every activity, at the moment it is written, names a lead that is
\* in the store at that moment, in every interleaving of requests, a lead
\* deletion between a request's lookup and its activity write included.
C11_ActivityLeadExists ==
    \A k \in DOMAIN NewActivities : NewActivities[k].lead_id \in DOMAIN leads

\* C12: in every state reached by requests that do not overlap, every
\* stored lead has a non-empty company and no two stored leads have the
\* same company when compared case-insensitively.
C12_CompanyUnique ==
    \A i \in DOMAIN leads :
        /\ leads[i].company # ""
        /\ \A j \in DOMAIN leads :
              i # j => Lower(leads[i].company) # Lower(leads[j].company)

\* The stored leads other than i whose company is that of lead i, case
\* folded.
Duplicates(i) ==
    {j \in DOMAIN leads \ {i} : Lower(leads[j].company) = Lower(leads[i].company)}

\* C13: two create-lead requests for the same company that overlap can
\* both pass the pre-check and both be stored; creates that run one after
\* the other cannot: a lead just created shares its company only with
\* leads that were stored after its pre-check query ran.
C13_DuplicateOnlyByRace ==
    (last.op = "create_lead" /\ last.status = 200)
    => /\ last.ret.id \in DOMAIN leads
       /\ Duplicates(last.ret.id) \cap last.args.seen = {}
       /\ last.args.seen = DOMAIN prev.leads => Duplicates(last.ret.id) = {}

C13_Witness ==
    /\ last.op = "create_lead"
    /\ last.status = 200
    /\ Duplicates(last.ret.id) # {}
    /\ \E j \in Duplicates(last.ret.id) : leads[j].company = leads[last.ret.id].company

\* The clock when the last request was served.
At == now - 1

Stored == {activities[k] : k \in DOMAIN activities}
StoredBefore == {prev.activities[k] : k \in DOMAIN prev.activities}

\* The age candidates: the activities created before the cutoff.
AgeCandidates(days) == {a \in StoredBefore : a.created_at < At - days}

\* The activities of a's lead that the store returns before a.
MoreRecent(a, tie) ==
    {b \in StoredBefore :
        /\ b.lead_id = a.lead_id
        /\ \/ b.created_at > a.created_at
           \/ /\ b.created_at = a.created_at
              /\ b.id # a.id
              /\ (tie = "asc") = (b.id < a.id)}

\* The count candidates: the activities beyond the keep most recent of
\* their lead.
CountCandidates(keep, tie) ==
    {a \in StoredBefore :
        a.lead_id \in DOMAIN prev.leads /\ Cardinality(MoreRecent(a, tie)) >= keep}

LiveCombined == last.op = "cleanup_old_activities" /\ ~last.args.dry_run

\* C14: a live pruneCombined(daysToKeep, keepRecent) deletes exactly the
\* union of the age candidates and the per-lead count candidates, each
\* activity once: deleted_count is the size of the union and every
\* activity outside the union is still stored.
C14_CombinedDeletesUnion ==
    LiveCombined =>
        LET union == AgeCandidates(last.args.days_to_keep)
                        \cup CountCandidates(last.args.keep_recent_per_lead,
                                             last.args.tie)
        IN /\ Stored = StoredBefore \ union
           /\ last.ret.deleted_count = Cardinality(union)
           /\ Len(activities) = Len(prev.activities) - Cardinality(union)
           /\ leads = prev.leads

C14_Witness ==
    /\ LiveCombined
    /\ LET age == AgeCandidates(last.args.days_to_keep)
           count == CountCandidates(last.args.keep_recent_per_lead, last.args.tie)
       IN /\ age \cap count # {}
          /\ age \ count # {}
          /\ count \ age # {}
          /\ Stored # {}
          /\ last.ret.deleted_count = Cardinality(age \cup count)

DryRun == "dry_run" \in DOMAIN last.args /\ last.args.dry_run

\* C15: every pruning operation run with dryRun = true leaves the stored
\* activities and leads unchanged; the dry run of pruneCombined reports
\* the candidate total a live run from the same state would delete, and
\* a preview of at most 10 of the candidates.
C15_DryRunChangesNothing ==
    DryRun =>
        /\ activities = prev.activities
        /\ leads = prev.leads
        /\ last.op = "cleanup_old_activities" =>
              LET union == AgeCandidates(last.args.days_to_keep)
                              \cup CountCandidates(last.args.keep_recent_per_lead,
                                                   last.args.tie)
                  preview == last.ret.activities_preview
              IN /\ last.ret.total_to_delete = Cardinality(union)
                 /\ Len(preview) <= 10
                 /\ Len(preview) = (IF Cardinality(union) < 10
                                    THEN Cardinality(union) ELSE 10)
                 /\ \A k \in DOMAIN preview : \E a \in union : a.id = preview[k]
                 /\ \A j, k \in DOMAIN preview : j # k => preview[j] # preview[k]
        /\ last.op = "clear_all_activities" =>
              /\ last.ret.total_activities = Len(prev.activities)
              /\ Len(last.ret.activities_preview) <= 10

C15_Witness ==
    /\ DryRun
    /\ last.op = "cleanup_old_activities"
    /\ last.ret.total_to_delete > 10
    /\ Len(last.ret.activities_preview) = 10
    /\ Len(activities) = last.ret.total_to_delete + 2

\* The activities of lead i, before and after the last request.
Of(rows, i) == {a \in rows : a.lead_id = i}

LiveByCount ==
    last.op = "script_cleanup_activities_by_lead" /\ ~last.args.dry_run

\* C16: for every lead with n activities and every keepRecent k >= 0, a
\* live pruneByCountPerLead(k) deletes exactly max(0, n - k) of the
\* lead's activities and keeps the k most recent by createdAt, all of
\* them when n <= k; every lead is pruned by the same rule on its own,
\* and a run for one lead leaves the other leads' activities alone.
C16_KeepsMostRecent ==
    LiveByCount =>
        \A i \in DOMAIN prev.leads :
            LET before == Of(StoredBefore, i)
                after == Of(Stored, i)
                n == Cardinality(before)
                k == last.args.keep_recent
            IN IF last.lead_id \in {0, i}
               THEN /\ after \subseteq before
                    /\ Cardinality(before \ after) = (IF n > k THEN n - k ELSE 0)
                    /\ Cardinality(after) = (IF n > k THEN k ELSE n)
                    /\ \A c \in after, d \in before \ after :
                          c.created_at >= d.created_at
               ELSE after = before

C16_Witness ==
    /\ LiveByCount
    /\ last.lead_id = 0
    /\ last.args.keep_recent = 5
    /\ Cardinality(Of(StoredBefore, 1)) = 12
    /\ Cardinality(Of(Stored, 1)) = 5
    /\ Cardinality(Of(StoredBefore, 2)) = 2
    /\ Cardinality(Of(Stored, 2)) = 2
    /\ last.ret.deleted_count = 7

ByAge == last.op = "script_cleanup_old_activities"

\* C17: pruneByAge(olderThan) selects exactly the activities whose
\* createdAt is strictly earlier than now - olderThan, whatever lead
\* they belong to: an activity created at the cutoff or later is never a
\* candidate, every strictly older one is; the live run deletes them and
\* no others.
C17_AgeCutoffStrict ==
    /\ ByAge =>
          LET found == {last.ret.found[k] : k \in DOMAIN last.ret.found}
              cutoff == At - last.args.days_to_keep
          IN /\ \A a \in StoredBefore : a.id \in found <=> a.created_at < cutoff
             /\ Len(last.ret.found) = Cardinality(found)
             /\ Stored = (IF last.args.dry_run THEN StoredBefore
                          ELSE {a \in StoredBefore : a.created_at >= cutoff})
    /\ (last.op = "cleanup_old_activities" /\ last.args.dry_run) =>
          last.ret.old_activities_by_date =
              Cardinality({a \in StoredBefore :
                              a.created_at < At - last.args.days_to_keep})

C17_Witness ==
    /\ ByAge
    /\ ~last.args.dry_run
    /\ \E a \in Stored : a.created_at = At - last.args.days_to_keep
    /\ \E a \in StoredBefore \ Stored : a.lead_id = 1
    /\ \E a \in StoredBefore \ Stored : a.lead_id = 2
    /\ \E a \in Stored : a.lead_id = 1

\* The last request is one that may remove a: a live pruning run, or the
\* deletion of a's lead.
MayRemove(a) ==
    \/ /\ last.op \in {"cleanup_old_activities", "clear_all_activities",
                       "script_cleanup_old_activities",
                       "script_cleanup_activities_by_lead"}
       /\ ~last.args.dry_run
    \/ /\ last.op = "delete_lead"
       /\ last.status = 200
       /\ a.lead_id = last.lead_id

\* C18: the activity log is append-only: an activity, once created, never
\* changes in any field, and it leaves the store only through a live
\* pruning run or the deletion of its lead; create, update, qualify,
\* outreach, progressStage, autoProgress and dry runs neither delete nor
\* alter an activity that exists.
C18_AppendOnly ==
    /\ \A a \in StoredBefore : a \in Stored \/ MayRemove(a)
    /\ \A a \in Stored : a.id < prev.nextActId => a \in StoredBefore
    /\ \A j, k \in DOMAIN activities : j < k => activities[j].id < activities[k].id

C18_Witness ==
    /\ last.op = "generate_outreach"
    /\ last.status = 200
    /\ Len(prev.activities) = 3
    /\ \E k \in DOMAIN prev.activities : prev.activities[k].lead_id = last.lead_id
    /\ SubSeq(activities, 1, 3) = prev.activities
    /\ Len(activities) = 4

\* The replies no structured object can be taken from.
NoObjectReplies ==
    {OutreachProse, OutreachLong, OutreachUnclosed, OutreachBareString,
     OutreachNull}

\* The last request is a generate_outreach whose text-generation call
\* returned a text.
OutreachAnswered ==
    /\ last.op = "generate_outreach"
    /\ OnStoredLead
    /\ last.args.reply.exc = "ok"

\* C19: when the text-generation call succeeds for a stored lead,
\* generateOutreach does not fail whatever the text is: with no structured
\* object in it the result is {subject: "Hey", body: the first 500
\* characters of the text, tags: []}; in every case exactly one
\* outreach_generated activity is written and no lead changes.
C19_OutreachDegradesGracefully ==
    OutreachAnswered =>
        /\ last.status = 200
        /\ last.args.reply \in NoObjectReplies =>
              last.ret.outreach =
                  [subject |-> Str("Hey"),
                   body |-> Str(Prefix(Render(last.args.reply.text), 500)),
                   tags |-> List(<<>>)]
        /\ Len(NewActivities) = 1
        /\ NewActivities[1].action = "outreach_generated"
        /\ NewActivities[1].lead_id = last.lead_id
        /\ leads = prev.leads

\* The weight the prompt is to show for criterion k: the caller's when the
\* caller gives one, the default otherwise.
MergedWeight(scoring_weights, k) ==
    IF k \in DOMAIN scoring_weights THEN scoring_weights[k] ELSE DefaultWeights[k]

\* C20: the prompt qualify builds shows each of the six default criteria,
\* with the caller's weight where the caller names the criterion and with
\* the default weight where the caller omits it.
C20_PromptMergesWeights ==
    QualifyCalled =>
        \A k \in DOMAIN DefaultWeights :
            /\ k \in DOMAIN last.args.prompt.weights
            /\ k \in DOMAIN last.args.prompt.criteria
            /\ last.args.prompt.weights[k]
                  = MergedWeight(last.args.scoring_weights, k)
            /\ last.args.prompt.criteria[k]
                  = MergedWeight(last.args.scoring_weights, k)

\* The company of the last create request is that of a lead stored when the
\* request arrived, letter case and surrounding blanks set aside.
DuplicateCompany ==
    \E i \in DOMAIN prev.leads :
        Lower(prev.leads[i].company) = Lower(Strip(last.args.company))

\* The last request left the store as it found it.
StoreUnchanged ==
    /\ leads = prev.leads
    /\ activities = prev.activities
    /\ nextLeadId = prev.nextLeadId
    /\ nextActId = prev.nextActId

\* The last request is a qualify, on a stored lead, with a weight outside
\* MIN_WEIGHT..MAX_WEIGHT.
BadWeights ==
    /\ last.op = "qualify"
    /\ OnStoredLead
    /\ \E k \in DOMAIN last.args.scoring_weights :
          last.args.scoring_weights[k] \notin MIN_WEIGHT..MAX_WEIGHT

\* C21: a create request with an empty or blank company is answered 400, one
\* whose company duplicates a stored lead's is answered 409, a qualify
\* request with a weight outside 1..10 is answered 400 before the
\* text-generation service is called; each leaves leads and activities as
\* they were.
C21_InvalidInputRejected ==
    /\ (last.op = "create_lead" /\ Strip(last.args.company) = "")
            => last.status = 400 /\ StoreUnchanged
    /\ (last.op = "create_lead" /\ Strip(last.args.company) # ""
            /\ DuplicateCompany)
            => last.status = 409 /\ StoreUnchanged
    /\ BadWeights
            => /\ last.status = 400
               /\ StoreUnchanged
               /\ "reply" \notin DOMAIN last.args

C21_Witness ==
    /\ last.op = "create_lead"
    /\ last.status = 409
    /\ last.args.company = " acme ai"
    /\ \E i \in DOMAIN leads : leads[i].company = "Acme AI"
    /\ Len(activities) >= 1
    /\ StoreUnchanged

\* The last request is a stage operation of the pipeline service.
StageRequest ==
    last.op \in {"progress_lead_stage", "auto_progress_after_qualification"}

\* C22: progress_lead_stage and auto_progress_after_qualification on an id
\* that names no stored lead are answered not found (404) and leave leads
\* and activities as they were.
C22_UnknownLeadNotFound ==
    (StageRequest /\ ~OnStoredLead) =>
        /\ last.status = 404
        /\ StoreUnchanged

C22_Witness ==
    /\ last.op = "auto_progress_after_qualification"
    /\ ~OnStoredLead
    /\ last.status = 404
    /\ DOMAIN leads # {}
    /\ Len(activities) >= 2
    /\ StoreUnchanged

\* The last request is a create that was answered with the lead.
Created == last.op = "create_lead" /\ last.status = 200

\* The lead the last create stored: new, in stage New with score 0, and
\* every other lead as it was.
OneLeadStored ==
    /\ last.lead_id \notin DOMAIN prev.leads
    /\ DOMAIN leads = DOMAIN prev.leads \cup {last.lead_id}
    /\ leads[last.lead_id].stage = STAGE_NEW
    /\ leads[last.lead_id].score = 0
    /\ leads[last.lead_id].company = Strip(last.args.company)
    /\ \A i \in DOMAIN prev.leads : leads[i] = prev.leads[i]

\* The last request appended one activity, lead_created by "system" for
\* the lead it names, and left every other activity as it was.
OneActivityAppended ==
    /\ Len(activities) = Len(prev.activities) + 1
    /\ SubSeq(activities, 1, Len(prev.activities)) = prev.activities
    /\ activities[Len(activities)].lead_id = last.lead_id
    /\ activities[Len(activities)].action = "lead_created"
    /\ activities[Len(activities)].actor = "system"

\* C25: a successful create stores one new lead, in stage New with score 0,
\* and appends one activity for it, lead_created by "system"; every other
\* lead and every other activity is as it was.
C25_CreateLogsOneActivity ==
    Created => OneLeadStored /\ OneActivityAppended

\* C25, amended: a successful create stores one new lead, in stage New with
\* score 0; it appends one lead_created activity when the write of the
\* activity succeeds and none when that write fails.
C25_CreateStoresOneLead ==
    Created =>
        /\ OneLeadStored
        /\ IF last.args.fault
           THEN activities = prev.activities
           ELSE OneActivityAppended

C25_Witness ==
    /\ Created
    /\ ~last.args.fault
    /\ last.lead_id = 2
    /\ DOMAIN leads = {1, 2}
    /\ leads[1].stage # STAGE_NEW
    /\ leads[2].stage = STAGE_NEW
    /\ Len(activities) = 3
    /\ activities[3].action = "lead_created"

\* C26: when requests do not overlap, every stored activity names a stored
\* lead, and after a lead is deleted no stored activity names it.
C26_ActivitiesNameStoredLeads ==
    /\ \A k \in DOMAIN activities : activities[k].lead_id \in DOMAIN leads
    /\ (last.op = "delete_lead" /\ last.status = 200) =>
           /\ last.lead_id \notin DOMAIN leads
           /\ \A k \in DOMAIN activities : activities[k].lead_id # last.lead_id

C26_Witness ==
    /\ last.op = "delete_lead"
    /\ last.status = 200
    /\ \E k \in DOMAIN prev.activities :
          prev.activities[k].lead_id = last.lead_id
    /\ Len(activities) = 1
    /\ activities[1].lead_id \in DOMAIN leads

\* The stored activities of lead i.
StoredOf(i) == {a \in Stored : a.lead_id = i}

\* C28: after a live pruneCombined(daysToKeep, keepRecent) with
\* keepRecent >= 0, served alone, every lead has at most keepRecent stored
\* activities and no stored activity was created before the cutoff of
\* that run.
C28_PruneLeavesRecentOnly ==
    (LiveCombined /\ last.args.keep_recent_per_lead >= 0) =>
        /\ \A i \in DOMAIN leads :
              Cardinality(StoredOf(i)) <= last.args.keep_recent_per_lead
        /\ \A a \in Stored :
              a.created_at >= Cutoff(At, last.args.days_to_keep)

C28_Witness ==
    /\ LiveCombined
    /\ last.args.keep_recent_per_lead = 2
    /\ last.args.days_to_keep = 3
    /\ Len(prev.activities) >= 5
    /\ Cardinality(StoredOf(1)) = 2
    /\ Cardinality(StoredOf(2)) = 2
    /\ \E a \in StoredBefore :
          a.created_at < Cutoff(At, last.args.days_to_keep)

\* The last request is a live pruning run that reported what it deleted.
LivePruneAnswered ==
    /\ last.op \in {"cleanup_old_activities", "clear_all_activities"}
    /\ ~last.args.dry_run
    /\ last.status = 200

\* C29: the deleted_count a live pruning run reports is the number of
\* activities that run removed from the store, also when another live run
\* or a lead deletion removed some of its rows in the meantime.
C29_DeletedCountIsRemoved ==
    LivePruneAnswered =>
        last.ret.deleted_count = Cardinality(StoredBefore \ Stored)

\* The stage_progression activities of lead i, in creation order.
StageLog(i) ==
    SelectSeq(activities,
              LAMBDA a : a.lead_id = i /\ a.action = "stage_progression")

\* The source and the target stage that the detail of a stage_progression
\* activity names.
SourceStage(a) ==
    CHOOSE s \in PipelineStage :
        IsPrefix("Stage changed from " \o s \o " to ", a.detail)
TargetOf(a) ==
    CHOOSE t \in PipelineStage :
        IsPrefix("Stage changed from " \o SourceStage(a) \o " to " \o t, a.detail)

\* No stage request on lead i is between its steps.
Settled(i) ==
    \A w \in DOMAIN inflight :
        ~(/\ inflight[w].lead_id = i
          /\ inflight[w].op \in {"progress_lead_stage",
                                 "auto_progress_after_qualification"})

\* C27: in every interleaving of progress_lead_stage and
\* auto_progress_after_qualification calls, the stage_progression
\* activities of a lead form a chain in creation order: the first starts
\* from New, each later one starts from the target of the one before,
\* and once every call has finished the last target is the stored stage.
C27_StageLogIsChain ==
    \A i \in DOMAIN leads :
        LET log == StageLog(i)
        IN /\ Len(log) > 0 => SourceStage(log[1]) = STAGE_NEW
           /\ \A k \in 2..Len(log) : SourceStage(log[k]) = TargetOf(log[k - 1])
           /\ Settled(i) =>
                 leads[i].stage =
                     IF Len(log) = 0 THEN STAGE_NEW ELSE TargetOf(log[Len(log)])

\* The text of a field holds the query, whatever the case of either.
FieldHolds(field, q) == field # None /\ Contains(Lower(field), Lower(q))

\* A search of the leads that read the store.
LeadsSearched ==
    last.op = "search_leads_only" /\ Strip(last.args.q) # ""

\* C23: the relevance of a lead that searchLeads returns is the sum of 10
\* for the company (and 5 more when the company starts with the query), 8
\* for the contact name, 6 for the title, 7 for the email and 4 for the
\* serialized metadata, over the fields that hold the query; a lead whose
\* only match is a company that starts with the query scores 15 with the
\* match type "company".
C23_RelevanceIsSumOfFields ==
    LeadsSearched =>
        \A k \in DOMAIN last.ret :
            LET r == last.ret[k]
                lead == leads[r.id]
                q == last.args.q
                prefix == StartsWith(Lower(lead.company), Lower(q))
            IN /\ r.relevance_score =
                    (IF FieldHolds(lead.company, q) THEN 10 ELSE 0)
                    + (IF prefix THEN 5 ELSE 0)
                    + (IF FieldHolds(lead.name, q) THEN 8 ELSE 0)
                    + (IF FieldHolds(lead.title, q) THEN 6 ELSE 0)
                    + (IF FieldHolds(lead.email, q) THEN 7 ELSE 0)
                    + (IF FieldHolds(lead.company_metadata, q) THEN 4 ELSE 0)
               /\ (/\ prefix
                   /\ ~FieldHolds(lead.name, q)
                   /\ ~FieldHolds(lead.title, q)
                   /\ ~FieldHolds(lead.email, q)
                   /\ ~FieldHolds(lead.company_metadata, q))
                  => r.relevance_score = 15 /\ r.match_type = "company"

\* A company search for "acme" returned "Acme AI" with 15 and "company",
\* and "Big Acme", which holds the query further in, with 10.
C23_Witness ==
    /\ LeadsSearched
    /\ last.args.q = "acme"
    /\ last.args.search_type = "company"
    /\ \E k \in DOMAIN last.ret :
          /\ leads[last.ret[k].id].company = "Acme AI"
          /\ last.ret[k].relevance_score = 15
          /\ last.ret[k].match_type = "company"
    /\ \E k \in DOMAIN last.ret :
          /\ leads[last.ret[k].id].company = "Big Acme"
          /\ last.ret[k].relevance_score = 10

\* A search of the metadata that read the store.
MetadataSearched ==
    last.op = "search_metadata_only" /\ Strip(last.args.q) # ""

\* The pairs of a lead and a member of the document it was created with
\* whose value, as text, holds the query; with a field, only the members of
\* that key.
MetadataMatches ==
    { pair \in UNION { {<<i, member>> : member \in
                          UNION { {doc[k] : k \in DOMAIN doc} : doc \in
                             {d \in MetadataDocs :
                                 MetadataJson(d) = leads[i].company_metadata} }}
                      : i \in DOMAIN leads } :
        /\ Contains(Lower(Format(pair[2].v)), Lower(last.args.q))
        /\ last.args.field # None => pair[2].k = last.args.field }

\* C24: searchMetadata answers one entry for each pair of a lead and a key
\* of its metadata whose stringified value holds the query, whatever the
\* case, with the key as field and the relevance 1; with a field filter,
\* only entries of that key. The answer holds limit entries when more than
\* limit pairs match.
C24_MetadataEntryPerKey ==
    MetadataSearched =>
        /\ \A k \in DOMAIN last.ret :
              /\ \E pair \in MetadataMatches :
                    /\ last.ret[k].lead_id = pair[1]
                    /\ last.ret[k].field = pair[2].k
                    /\ last.ret[k].value = pair[2].v
              /\ last.ret[k].relevance_score = 1
              /\ last.args.field # None => last.ret[k].field = last.args.field
        /\ \A k, l \in DOMAIN last.ret :
              (/\ last.ret[k].lead_id = last.ret[l].lead_id
               /\ last.ret[k].field = last.ret[l].field) => k = l
        /\ Len(last.ret) = IF Cardinality(MetadataMatches) < last.args.limit
                           THEN Cardinality(MetadataMatches)
                           ELSE last.args.limit

\* The lead created with {"industry": "SaaS"} is answered for "saas" with
\* the field "industry", next to the tags of another lead, without a field
\* filter.
C24_Witness ==
    /\ MetadataSearched
    /\ last.args.q = "saas"
    /\ last.args.field = None
    /\ Len(last.ret) = 2
    /\ \E k \in DOMAIN last.ret :
          /\ leads[last.ret[k].lead_id].company_metadata = "{\"industry\": \"SaaS\"}"
          /\ last.ret[k].field = "industry"
          /\ last.ret[k].value = Str("SaaS")
          /\ last.ret[k].relevance_score = 1
    /\ \E k \in DOMAIN last.ret : last.ret[k].field = "tags"

\* The same search with the field "industry" leaves the tags out.
C24_WitnessField ==
    /\ MetadataSearched
    /\ last.args.q = "saas"
    /\ last.args.field = "industry"
    /\ Cardinality({i \in DOMAIN leads :
                       Contains(Lower(leads[i].company_metadata), "saas")}) = 2
    /\ Len(last.ret) = 1

\* A search of the activities that read the store.
ActivitiesSearched ==
    last.op = "search_activities_only" /\ Strip(last.args.q) # ""

\* The relevance of every stored record that matches the search answered
\* last and is not among its results.
LeftOutScores ==
    IF LeadsSearched
    THEN { RelevanceScore(leads[i], Lower(last.args.q)) : i \in
             { j \in DOMAIN leads :
                 /\ LeadMatches(leads[j], last.args.q, last.args.search_type)
                 /\ \A k \in DOMAIN last.ret : last.ret[k].id # j } }
    ELSE { ActivityRelevance(activities[n], Lower(last.args.q)) : n \in
             { m \in DOMAIN activities :
                 /\ ActivityMatches(activities[m], last.args.q, last.args.lead_id)
                 /\ \A k \in DOMAIN last.ret :
                       last.ret[k].id # activities[m].id } }

\* C30: searchLeads and searchActivities with the limit L answer at most L
\* results, in descending order of relevance, and leave out no matching
\* record of a relevance strictly higher than that of a record they
\* answer.
C30_LimitKeepsMostRelevant ==
    (LeadsSearched \/ ActivitiesSearched) =>
        /\ Len(last.ret) <= last.args.limit
        /\ \A k, l \in DOMAIN last.ret :
              k < l => last.ret[k].relevance_score >= last.ret[l].relevance_score
        /\ \A k \in DOMAIN last.ret :
              \A score \in LeftOutScores : score <= last.ret[k].relevance_score

====
